---- MODULE Spec2Model ----
(***************************************************************************)
(* Logo extraction pipeline of logo_bot: the disqualifier heuristics, the  *)
(* on-disk extraction cache, BaseExtractor.extract_logo with its three     *)
(* extractors, and the three orchestrators (CLI entry point, API endpoint, *)
(* monolithic download_company_logo).                                      *)
(***************************************************************************)
EXTENDS Integers, Sequences, FiniteSets, TLC

VARIABLES
    cache,          \* the cache directory: website URL -> stored dict
    now,            \* time.time(), in seconds
    pc,             \* where the running orchestrator stands; "idle" between runs
    run,            \* the arguments of the running orchestrator call
    files,          \* the files a CLI run has in its output directory: path -> content
    all_logos,      \* the CLI's candidate list
    website_logo,   \* the API's website_logo
    google_logo,    \* the API's google_logo
    invoked,        \* the extractors whose extraction entry point the run called
    performed,      \* the extractors whose extraction ran in the run
    heur,           \* what the heuristic stage of the run returned
    last,           \* the record of the latest BaseExtractor.extract_logo call
    result,         \* what the orchestrator call returned
    facts,          \* what the URL predicates answer for each URL; never changes
    web,            \* what _perform_extraction of each extractor can yield on
                    \* the web as it is; never changes
    unit            \* a library function called on its own: its name, its
                    \* arguments and, once it has returned, its result

vars == <<cache, now, pc, run, files, all_logos, website_logo, google_logo,
          invoked, performed, heur, last, result, facts, web, unit>>

\* the variables of the orchestrators
mainvars == <<cache, now, pc, run, files, all_logos, website_logo, google_logo,
              invoked, performed, heur, last, result, facts, web>>

(***************************************************************************)
(* Strings.  URLs are TLA+ strings; the Python string methods the          *)
(* heuristics use are modelled character by character.                     *)
(***************************************************************************)
UpperChars == "ABCDEFGHIJKLMNOPQRSTUVWXYZ"

LowerChars == "abcdefghijklmnopqrstuvwxyz"

LowerChar(c) ==
    IF \E i \in 1..Len(UpperChars) : SubSeq(UpperChars, i, i) = c
    THEN LET i == CHOOSE j \in 1..Len(UpperChars) : SubSeq(UpperChars, j, j) = c
         IN  SubSeq(LowerChars, i, i)
    ELSE c

RECURSIVE lower(_)
\* str.lower()
lower(s) ==
    IF Len(s) = 0 THEN ""
    ELSE LowerChar(SubSeq(s, 1, 1)) \o lower(SubSeq(s, 2, Len(s)))

\* Python's `t in s` on strings
Contains(s, t) ==
    \E i \in 1..(Len(s) - Len(t) + 1) : SubSeq(s, i, i + Len(t) - 1) = t

\* str.startswith
StartsWith(s, t) == Len(s) >= Len(t) /\ SubSeq(s, 1, Len(t)) = t

\* str.endswith
EndsWith(s, t) == Len(s) >= Len(t) /\ SubSeq(s, Len(s) - Len(t) + 1, Len(s)) = t

\* index of the last occurrence of the one-character string ch in s, 0 if none
LastIndexOf(s, ch) ==
    LET hits == {i \in 1..Len(s) : SubSeq(s, i, i) = ch}
    IN  IF hits = {} THEN 0 ELSE CHOOSE i \in hits : \A j \in hits : j <= i

\* index of the first occurrence of ch in s, 0 if none
FirstIndexOf(s, ch) ==
    LET hits == {i \in 1..Len(s) : SubSeq(s, i, i) = ch}
    IN  IF hits = {} THEN 0 ELSE CHOOSE i \in hits : \A j \in hits : i <= j

\* s.split(ch)[0]
BeforeFirst(s, ch) ==
    IF FirstIndexOf(s, ch) = 0 THEN s ELSE SubSeq(s, 1, FirstIndexOf(s, ch) - 1)

RECURSIVE split(_, _)
\* s.split(ch), ch of one character
split(s, ch) ==
    IF FirstIndexOf(s, ch) = 0
    THEN <<s>>
    ELSE <<SubSeq(s, 1, FirstIndexOf(s, ch) - 1)>>
         \o split(SubSeq(s, FirstIndexOf(s, ch) + 1, Len(s)), ch)

RECURSIVE strip(_)
\* s.strip() of a string whose only whitespace is the space
strip(s) ==
    IF Len(s) = 0 THEN s
    ELSE IF SubSeq(s, 1, 1) = " " THEN strip(SubSeq(s, 2, Len(s)))
    ELSE IF SubSeq(s, Len(s), Len(s)) = " " THEN strip(SubSeq(s, 1, Len(s) - 1))
    ELSE s

Digits == "0123456789"

\* int(s) raises no ValueError: s is a string of decimal digits
IsDigits(s) ==
    /\ Len(s) > 0
    /\ \A i \in 1..Len(s) : \E j \in 1..Len(Digits) : SubSeq(Digits, j, j) = SubSeq(s, i, i)

RECURSIVE int(_)
\* int(s) of a string of decimal digits
int(s) ==
    IF Len(s) = 0 THEN 0
    ELSE LET c == SubSeq(s, Len(s), Len(s))
             d == CHOOSE j \in 1..Len(Digits) : SubSeq(Digits, j, j) = c
         IN  10 * int(SubSeq(s, 1, Len(s) - 1)) + (d - 1)

\* s.split('/')[-1]
LastSegment(s) == SubSeq(s, LastIndexOf(s, "/") + 1, Len(s))

\* os.path.splitext(s)[1]: the extension of the last path component, dot
\* included; empty when that component has no dot or only leading dots
SplitExt(s) ==
    LET base == LastSegment(s)
        d    == LastIndexOf(base, ".")
        lead == \A i \in 1..(d - 1) : SubSeq(base, i, i) = "."
    IN  IF d = 0 \/ lead THEN "" ELSE SubSeq(base, d, Len(base))

(***************************************************************************)
(* Image heuristics (logo_bot/utils/image.py)                              *)
(***************************************************************************)
None == "None"

TEXT_BASED_LOGO == "TEXT_BASED_LOGO"

valid_extensions ==
    {".jpg", ".jpeg", ".png", ".gif", ".svg", ".webp", ".ico", ".bmp", ".tiff"}

hero_terms ==
    {"hero", "banner", "background", "header-bg", "bg-", "slide",
     "carousel", "header-image", "splash", "cover", "main-image",
     "showcase", "featured", "jumbotron", "slider", "billboard",
     "masthead", "header-photo", "panorama", "headline", "feature-img",
     "header-banner", "hero-image", "main-banner", "bg_"}

generic_names ==
    {"header.jpg", "header.png", "header.svg", "bg.jpg", "bg.png", "bg.svg"}

hero_paths ==
    {"/assets/images/header/", "/images/hero/", "/img/banner/", "/assets/banner/"}

icon_patterns ==
    {"icon-", "-icon", "ico-", "-ico", "symbol-", "-symbol", "glyph-", "-glyph"}

specific_icons ==
    {"arrow", "chevron", "menu", "hamburger", "search", "cart",
     "social", "facebook", "twitter", "instagram", "linkedin",
     "youtube", "pinterest", "tiktok", "snapchat", "whatsapp",
     "phone", "email", "contact", "chat", "message", "comment",
     "user", "profile", "account", "person", "login", "signin",
     "download", "upload", "share", "close", "plus", "minus",
     "star", "heart", "like", "check", "checkmark", "clock",
     "calendar", "time", "date", "location", "map", "pin",
     "settings", "gear", "cog", "edit", "pencil", "delete",
     "trash", "refresh", "sync", "update", "play", "pause"}

\* is_likely_hero_image(url)
is_likely_hero_image(url) ==
    /\ url # None
    /\ LET url_lower == lower(url)
           filename  == LastSegment(url_lower)
       IN  \/ \E term \in hero_terms : Contains(filename, term)
           \/ \E term \in hero_terms : Contains(url_lower, term)
           \/ \E name \in generic_names : Contains(url_lower, name)
           \/ \E path \in hero_paths : Contains(url_lower, path)

\* is_likely_icon_not_logo(url)
is_likely_icon_not_logo(url) ==
    /\ url # None
    /\ LET url_lower == lower(url)
           filename  == LastSegment(url_lower)
       IN  \/ \E pattern \in icon_patterns : Contains(filename, pattern)
           \/ \E icon \in specific_icons : Contains(filename, icon)
           \/ /\ Contains(url_lower, "feature")
              /\ Contains(url_lower, "icon") \/ Contains(url_lower, "symbol")

\* is_valid_image_url(url); head_is_image is the answer of the HEAD probe
\* (status 200 and an image/* content type), asked only for a URL without
\* extension
is_valid_image_url(url, head_is_image) ==
    /\ url # None
    /\ \/ StartsWith(url, "data:image/")
       \/ LET ext == lower(SplitExt(BeforeFirst(BeforeFirst(url, "?"), "#")))
          IN  \/ ext \in valid_extensions
              \/ ext = "" /\ ~StartsWith(url, "data:") /\ head_is_image

\* 'favicon' in url.lower()
HasFavicon(url) == Contains(lower(url), "favicon")

(***************************************************************************)
(* The URLs of the model: one for each way the heuristics classify a URL.  *)
(***************************************************************************)
WEBSITE_URL == "https://acme.com"

URL_LOGO == "https://acme.com/img/logo.png"

URL_FAVICON == "https://acme.com/img/Favicon.png"

URL_HERO == "https://acme.com/img/hero-banner.jpg"

URL_ICON == "https://acme.com/img/cart-icon.png"

URL_NOEXT == "https://acme.com/brand/logo"

URLS == {URL_LOGO, URL_FAVICON, URL_HERO, URL_ICON, URL_NOEXT}

(***************************************************************************)
(* The URL predicates of the extractors, and their values over the URL     *)
(* universe, computed once.                                                *)
(***************************************************************************)
domain == "acme.com"

google_patterns == {"google", "gstatic", "googleusercontent", "fonts.googleapis"}

social_domains == {"twitter.com", "facebook.com", "linkedin.com", "instagram.com",
                   "youtube.com", "pinterest.com", "tumblr.com"}

agent_image_extensions == {".png", ".jpg", ".jpeg", ".svg", ".gif", ".webp"}

\* _get_image_format_from_url(url): the first listed extension the URL contains
get_image_format_from_url(url) ==
    LET u == lower(url)
    IN  IF Contains(u, ".svg") THEN "svg"
        ELSE IF Contains(u, ".png") THEN "png"
        ELSE IF Contains(u, ".jpg") THEN "jpg"
        ELSE IF Contains(u, ".jpeg") THEN "jpg"
        ELSE IF Contains(u, ".webp") THEN "webp"
        ELSE IF Contains(u, ".gif") THEN "gif"
        ELSE None

is_social(url) == \E social \in social_domains : Contains(lower(url), social)

\* the filter both search methods apply to their image data: Google's own
\* images, icons and favicons, redirects
unwanted_image(url) ==
    \/ \E pattern \in google_patterns : Contains(lower(url), pattern)
    \/ \E pattern \in {"icon", "favicon"} : Contains(lower(url), pattern)
    \/ Contains(url, "imgres?")
    \/ Contains(url, "url?")

\* self.domain in url.lower()
on_domain(url) == Contains(lower(url), domain)

\* 'logo' in url.lower()
names_logo(url) == Contains(lower(url), "logo")

\* the agent loop's test for a URL that looks like a logo
agent_logo_term(url) == \E term \in {"logo", "brand", "header"} : Contains(lower(url), term)

\* the agent loop's pattern for image URLs
agent_image_url(url) == lower(SplitExt(BeforeFirst(url, "?"))) \in agent_image_extensions

\* the nitro placeholder the heuristic scan skips
nitro_placeholder(url) == Contains(url, "nitro-empty-id") /\ Contains(url, "base64")

FactsOf(urls) ==
    [u \in urls |->
        [hero |-> is_likely_hero_image(u),
         icon |-> is_likely_icon_not_logo(u),
         favicon |-> HasFavicon(u),
         valid |-> [head \in BOOLEAN |-> is_valid_image_url(u, head)],
         format |-> get_image_format_from_url(u),
         social |-> is_social(u),
         unwanted |-> unwanted_image(u),
         on_domain |-> on_domain(u),
         names_logo |-> names_logo(u),
         agent_logo_term |-> agent_logo_term(u),
         agent_image_url |-> agent_image_url(u),
         nitro |-> nitro_placeholder(u)]]

Facts == FactsOf(URLS)

(***************************************************************************)
(* Image files.  An image is what a server answers a download with: the    *)
(* extension the download gives the file, whether PIL can decode it, its   *)
(* mode and size, the bounding box (bw x bh) of its non-transparent        *)
(* pixels (alpha 255 inside, 0 outside), its number of near-white pixels,  *)
(* which lie inside the box, and whether its bytes are an SVG document.    *)
(***************************************************************************)
IMG_GOOD ==
    [ext |-> ".png", decodable |-> TRUE, mode |-> "RGBA",
     w |-> 64, h |-> 64, bw |-> 64, bh |-> 64, white_pixels |-> 0, svg |-> FALSE]

\* a wide logo on a transparent canvas: valid as downloaded, 64 x 20 once cropped
IMG_PADDED ==
    [ext |-> ".png", decodable |-> TRUE, mode |-> "RGBA",
     w |-> 64, h |-> 64, bw |-> 64, bh |-> 20, white_pixels |-> 0, svg |-> FALSE]

IMG_PHOTO ==
    [ext |-> ".jpg", decodable |-> TRUE, mode |-> "RGB",
     w |-> 300, h |-> 200, bw |-> 300, bh |-> 200, white_pixels |-> 0, svg |-> FALSE]

IMG_TINY ==
    [ext |-> ".png", decodable |-> TRUE, mode |-> "RGB",
     w |-> 16, h |-> 16, bw |-> 16, bh |-> 16, white_pixels |-> 0, svg |-> FALSE]

IMG_WHITE ==
    [ext |-> ".jpg", decodable |-> TRUE, mode |-> "RGB",
     w |-> 100, h |-> 100, bw |-> 100, bh |-> 100, white_pixels |-> 10000, svg |-> FALSE]

\* an SVG document: bytes PIL cannot identify
IMG_SVG ==
    [ext |-> ".svg", decodable |-> FALSE, mode |-> "RGB",
     w |-> 0, h |-> 0, bw |-> 0, bh |-> 0, white_pixels |-> 0, svg |-> TRUE]

Images == {IMG_GOOD, IMG_PADDED, IMG_PHOTO, IMG_TINY, IMG_SVG}

\* no file at the path
NO_FILE == [ext |-> "", decodable |-> FALSE, mode |-> "",
            w |-> 0, h |-> 0, bw |-> 0, bh |-> 0, white_pixels |-> 0, svg |-> FALSE]

(***************************************************************************)
(* Quality assurance (logo_bot/utils/qa.py)                                *)
(***************************************************************************)
min_width == 32

min_height == 32

min_total_pixels == 1024

\* is_corrupted_image(image_path), for the file at the path
is_corrupted_image(file) ==
    IF file = NO_FILE
    THEN TRUE
    ELSE IF file.ext = ".svg"
    THEN ~file.svg
    ELSE ~file.decodable

\* is_all_white_or_transparent(image_path): mean alpha / 255 < 0.1 for an RGBA
\* image, else more than white_threshold = 0.98 of the pixels at 240 or above
is_all_white_or_transparent(file) ==
    \/ ~file.decodable
    \/ file.mode = "RGBA" /\ 10 * (file.bw * file.bh) < file.w * file.h
    \/ 100 * file.white_pixels > 98 * (file.w * file.h)

\* is_too_small(image_path)
is_too_small(file) ==
    \/ ~file.decodable
    \/ file.w < min_width
    \/ file.h < min_height
    \/ file.w * file.h < min_total_pixels

\* the issue texts of check_logo_quality
SVG_CORRUPTED == "SVG file is corrupted or invalid"

IMAGE_CORRUPTED == "Image is corrupted or not a valid image file"

IMAGE_WHITE == "Image is entirely or almost entirely white/transparent"

IMAGE_SMALL == "Image is too small to be a useful logo"

\* what validate_and_fix_logo looks for in each issue text
IssueFacts ==
    [issue \in {SVG_CORRUPTED, IMAGE_CORRUPTED, IMAGE_WHITE, IMAGE_SMALL} |->
        [corrupted |-> Contains(issue, "corrupted"),
         white |-> Contains(issue, "white") \/ Contains(issue, "transparent"),
         small |-> Contains(issue, "too small")]]

\* check_logo_quality(image_path) with the raster checks run whatever the
\* corruption check answered
check_logo_quality_all_checks(file) ==
    IF file.ext = ".svg"
    THEN IF is_corrupted_image(file) THEN <<SVG_CORRUPTED>> ELSE <<>>
    ELSE (IF is_corrupted_image(file) THEN <<IMAGE_CORRUPTED>> ELSE <<>>)
         \o (IF is_all_white_or_transparent(file) THEN <<IMAGE_WHITE>> ELSE <<>>)
         \o (IF is_too_small(file) THEN <<IMAGE_SMALL>> ELSE <<>>)

\* check_logo_quality(image_path): the ordered issue list; the function
\* returns (len(issues) == 0, issues)
check_logo_quality(file) ==
    IF file.ext = ".svg"
    THEN IF is_corrupted_image(file)
         THEN <<SVG_CORRUPTED>>
         ELSE <<>>
    ELSE IF is_corrupted_image(file)
         THEN <<IMAGE_CORRUPTED>>
         ELSE (IF is_all_white_or_transparent(file)
               THEN <<IMAGE_WHITE>>
               ELSE <<>>)
              \o
              (IF is_too_small(file)
               THEN <<IMAGE_SMALL>>
               ELSE <<>>)

\* the checks check_logo_quality(image_path) calls, in the order of the calls
quality_checks_run(file) ==
    IF file.ext = ".svg" \/ is_corrupted_image(file)
    THEN <<"is_corrupted_image">>
    ELSE <<"is_corrupted_image", "is_all_white_or_transparent", "is_too_small">>

\* validate_and_fix_logo(image_path): (fixed_path, is_valid, issues); path
\* is whether image_path is returned (None otherwise)
validate_and_fix_logo(file) ==
    LET verdict(issues) ==
            IF Len(issues) = 0
            THEN [path |-> TRUE, is_valid |-> TRUE, issues |-> <<>>]
            ELSE IF IssueFacts[issues[1]].corrupted
            THEN [path |-> FALSE, is_valid |-> FALSE, issues |-> issues]
            ELSE IF \E i \in 1..Len(issues) : IssueFacts[issues[i]].white
            THEN [path |-> FALSE, is_valid |-> FALSE, issues |-> issues]
            ELSE IF \E i \in 1..Len(issues) : IssueFacts[issues[i]].small
            THEN [path |-> FALSE, is_valid |-> FALSE, issues |-> issues]
            ELSE [path |-> TRUE, is_valid |-> FALSE, issues |-> issues]
    IN  verdict(check_logo_quality(file))

\* auto_crop_image(image_path): the file cropped in place to the bounding box
\* of its non-transparent pixels
auto_crop_image(file) ==
    IF file.bw > 0 /\ file.bh > 0
    THEN [file EXCEPT !.w = file.bw, !.h = file.bh]
    ELSE file

\* process_logo_image(image_path): path is whether a processed path is
\* returned (None otherwise), file the content of the file afterwards
process_logo_image(file) ==
    IF file = NO_FILE
    THEN [path |-> FALSE, is_valid |-> FALSE, issues |-> <<"File not found">>,
          file |-> file]
    ELSE IF file.ext = ".svg"
    THEN IF file.svg
         THEN [path |-> TRUE, is_valid |-> TRUE, issues |-> <<>>, file |-> file]
         ELSE [path |-> FALSE, is_valid |-> FALSE,
               issues |-> <<"Image is not a valid SVG file">>, file |-> file]
    ELSE LET processed(v) ==
                 [path |-> v.path, is_valid |-> v.is_valid, issues |-> v.issues,
                  file |-> IF v.is_valid /\ file.mode = "RGBA"
                           THEN auto_crop_image(file)
                           ELSE file]
         IN  processed(validate_and_fix_logo(file))

(***************************************************************************)
(* download_image (logo_bot/utils/image.py).  responses[k] is the server's *)
(* answer to attempt k: no usable answer (time-out, status other than 200, *)
(* a body that is not an image, an empty file) or an image body.           *)
(***************************************************************************)
max_retries == 3

NoResponse == [ok |-> FALSE, body |-> NO_FILE]

Responses == {NoResponse} \cup {[ok |-> TRUE, body |-> i] : i \in Images}

RetNone == [kind |-> "none", url |-> None, file |-> NO_FILE]

RetText == [kind |-> "text", url |-> None, file |-> NO_FILE]

RetRaise == [kind |-> "raise", url |-> None, file |-> NO_FILE]

RetPath(url, file) == [kind |-> "path", url |-> url, file |-> file]

RECURSIVE download_attempt(_, _, _)
\* one iteration of the retry loop.  A saved file PIL cannot verify makes the
\* except clause evaluate UnidentifiedImageError, a name image.py never
\* imports: the NameError leaves the function, and the file stays on disk
download_attempt(image_url, responses, attempt) ==
    IF attempt >= max_retries
    THEN RetNone
    ELSE LET response == responses[attempt + 1]
         IN  IF response.ok
             THEN IF response.body.decodable
                  THEN RetPath(image_url, response.body)
                  ELSE [RetRaise EXCEPT !.file = response.body]
             ELSE download_attempt(image_url, responses, attempt + 1)

download_image(image_url, responses) == download_attempt(image_url, responses, 0)

\* every way the servers can answer the attempts of one download
ResponseSeqs == [1..max_retries -> Responses]

\* what download_image can return for each URL, over all those ways
DownloadResults == [u \in URLS |-> {download_image(u, responses) : responses \in ResponseSeqs}]

(***************************************************************************)
(* The cache (logo_bot/utils/cache.py): one JSON file per website URL.     *)
(* The directory is a function from the URLs that have a file to the dict  *)
(* stored in it; a dict is a record with exactly the keys written.         *)
(***************************************************************************)
NoRecord == <<>>

dict_get(d, key, default) == IF key \in DOMAIN d THEN d[key] ELSE default

max_age == 7 * 24 * 60 * 60

\* a cache file json.load cannot parse
UNREADABLE == [corrupt |-> "unreadable"]

\* a cache file holding a JSON document that is no object, such as [1]
NOT_A_DICT == [corrupt |-> "not_a_dict"]

\* get_cached_result(url): the parsed file; None without a file and, the
\* exception of json.load being caught, for a file that does not parse
get_cached_result(c, url) ==
    IF url \in DOMAIN c
    THEN IF c[url] = UNREADABLE THEN NoRecord ELSE c[url]
    ELSE NoRecord

\* a write that updates the stored dict instead of replacing it
cache_text_based_logo_merged(c, url, method, t) ==
    [u \in DOMAIN c \cup {url} |->
        IF u = url
        THEN [website_url |-> url, text_based_logo |-> TRUE,
              timestamp |-> t, method |-> method] @@ get_cached_result(c, url)
        ELSE c[u]]

cache_text_based_logo(c, url, method, t) ==
    [u \in DOMAIN c \cup {url} |->
        IF u = url
        THEN [website_url |-> url, text_based_logo |-> TRUE,
              timestamp |-> t, method |-> method]
        ELSE c[u]]

cache_logo_url(c, url, logo_url, method, t) ==
    [u \in DOMAIN c \cup {url} |->
        IF u = url
        THEN [website_url |-> url, logo_url |-> logo_url,
              timestamp |-> t, method |-> method]
        ELSE c[u]]

\* a validity check that has no maximum age
is_cache_valid_at_any_age(cached_result, t) ==
    cached_result # NoRecord

is_cache_valid(cached_result, t) ==
    IF cached_result = NoRecord
    THEN FALSE
    ELSE (t - dict_get(cached_result, "timestamp", 0)) < max_age

\* clear_cache(url); url = None clears every record
clear_cache(c, url) ==
    IF url # None
    THEN [u \in DOMAIN c \ {url} |-> c[u]]
    ELSE [u \in {} |-> NoRecord]

(***************************************************************************)
(* BaseExtractor (logo_bot/extractors/base.py).  The environment of one    *)
(* call is env: pe, what _perform_extraction yields; head_cached and head, *)
(* whether the HEAD probe of an extension-less cached or extracted URL     *)
(* answers with an image content type; downloaded, what download_image    *)
(* returns.                                                                *)
(***************************************************************************)
PeNone == [kind |-> "none", urls |-> <<>>]

PeText == [kind |-> "text", urls |-> <<>>]

PeRaise == [kind |-> "raise", urls |-> <<>>]

PeUrl(url) == [kind |-> "url", urls |-> <<url>>]

PeList(urls) == [kind |-> "list", urls |-> urls]

\* _download_and_process_logo(logo_url): ret is the processed path, None when
\* the download fails, the file fails quality control or anything raises;
\* disk is the file the call leaves in the output directory
download_and_process_logo(logo_url, downloaded) ==
    LET returned(processed) ==
            IF processed.path
            THEN [ret |-> RetPath(logo_url, processed.file), disk |-> processed.file,
                  is_valid |-> processed.is_valid]
            ELSE [ret |-> RetNone, disk |-> processed.file,
                  is_valid |-> processed.is_valid]
    IN  IF downloaded.kind # "path"
        THEN [ret |-> RetNone, disk |-> downloaded.file, is_valid |-> FALSE]
        ELSE returned(process_logo_image(downloaded.file))

\* the test both result branches of extract_logo apply to an extracted URL
extracted_url_ok(logo_url, head) ==
    /\ logo_url # None
    /\ facts[logo_url].valid[head]
    /\ ~facts[logo_url].hero
    /\ ~facts[logo_url].icon

\* the first URL of the list that passes the test, None if there is none
first_ok(urls, head) ==
    IF \E i \in 1..Len(urls) : extracted_url_ok(urls[i], head)
    THEN urls[CHOOSE i \in 1..Len(urls) :
                 /\ extracted_url_ok(urls[i], head)
                 /\ \A j \in 1..(i - 1) : ~extracted_url_ok(urls[j], head)]
    ELSE None

\* a cache check that does not look at text_based_logo
cache_check_without_text(force_refresh, cached_result, t, head) ==
    IF force_refresh \/ cached_result = NoRecord
    THEN "miss"
    ELSE LET cached_logo_url == dict_get(cached_result, "logo_url", None)
         IN  IF cached_logo_url # None /\ is_cache_valid(cached_result, t)
             THEN IF facts[cached_logo_url].hero
                  THEN "clear"
                  ELSE IF facts[cached_logo_url].valid[head]
                  THEN "serve"
                  ELSE "clear"
             ELSE "miss"

\* a cache check that does not re-validate against the hero heuristic
cache_check_without_hero(force_refresh, cached_result, t, head) ==
    IF force_refresh \/ cached_result = NoRecord
    THEN "miss"
    ELSE IF dict_get(cached_result, "text_based_logo", FALSE)
    THEN "text"
    ELSE LET cached_logo_url == dict_get(cached_result, "logo_url", None)
         IN  IF cached_logo_url # None /\ is_cache_valid(cached_result, t)
             THEN IF facts[cached_logo_url].valid[head]
                  THEN "serve"
                  ELSE "clear"
             ELSE "miss"

\* a cache check that reads the cache whatever force_refresh says
cache_check_without_refresh(force_refresh, cached_result, t, head) ==
    IF cached_result = NoRecord
    THEN "miss"
    ELSE IF dict_get(cached_result, "text_based_logo", FALSE)
    THEN "text"
    ELSE LET cached_logo_url == dict_get(cached_result, "logo_url", None)
         IN  IF cached_logo_url # None /\ is_cache_valid(cached_result, t)
             THEN IF facts[cached_logo_url].hero
                  THEN "clear"
                  ELSE IF facts[cached_logo_url].valid[head]
                  THEN "serve"
                  ELSE "clear"
             ELSE "miss"

\* lines 43-65: what the cache check decides
\*   "text"  return TEXT_BASED_LOGO         "serve" download the cached URL
\*   "clear" delete the record, extract     "miss"  extract
cache_check(force_refresh, cached_result, t, head) ==
    IF force_refresh \/ cached_result = NoRecord
    THEN "miss"
    ELSE IF dict_get(cached_result, "text_based_logo", FALSE)
    THEN "text"
    ELSE LET cached_logo_url == dict_get(cached_result, "logo_url", None)
         IN  IF cached_logo_url # None /\ is_cache_valid(cached_result, t)
             THEN IF facts[cached_logo_url].hero
                  THEN "clear"
                  ELSE IF facts[cached_logo_url].valid[head]
                  THEN "serve"
                  ELSE "clear"
             ELSE "miss"

\* lines 68-109: extraction, caching and download on the cache c
extract_fresh(method, website_url, c, t, env, cleared) ==
    LET pe == env.pe
        \* candidates: the URLs of the result that pass the test of lines 81 and 98
        log(logo_url, is_valid) ==
            [performed |-> TRUE, cleared |-> cleared, served |-> None,
             downloaded |-> logo_url, cached |-> logo_url, is_valid |-> is_valid,
             candidates |-> SelectSeq(pe.urls,
                                      LAMBDA u : extracted_url_ok(u, env.head))]
        \* lines 85-88 and 102-105: the URL is cached, then downloaded
        accepted(logo_url, got) ==
            [ret |-> got.ret, disk |-> got.disk,
             cache |-> cache_logo_url(c, website_url, logo_url, method, t),
             log |-> log(logo_url, got.is_valid)]
        tested(logo_url) ==
            IF logo_url # None
            THEN accepted(logo_url, download_and_process_logo(logo_url, env.downloaded))
            ELSE [ret |-> RetNone, disk |-> NO_FILE, cache |-> c,
                  log |-> log(None, FALSE)]
    IN  IF pe.kind = "raise"
        THEN [ret |-> RetRaise, disk |-> NO_FILE, cache |-> c, log |-> log(None, FALSE)]
        ELSE IF pe.kind = "text"
        THEN [ret |-> RetText, disk |-> NO_FILE,
              cache |-> cache_text_based_logo(c, website_url, method, t),
              log |-> [log(None, FALSE) EXCEPT !.cached = TEXT_BASED_LOGO]]
        ELSE tested(IF pe.kind \in {"url", "list"}
                    THEN first_ok(pe.urls, env.head)
                    ELSE None)

\* extract_logo(force_refresh) of an extractor with the given method name
extract_logo(method, website_url, force_refresh, c, t, env) ==
    LET served(cached_logo_url, got) ==
            [ret |-> got.ret, disk |-> got.disk, cache |-> c,
             log |-> [performed |-> FALSE, cleared |-> FALSE,
                      served |-> cached_logo_url,
                      downloaded |-> cached_logo_url, cached |-> None,
                      is_valid |-> got.is_valid, candidates |-> <<>>]]
        decided(cached_logo_url, decision) ==
            CASE decision = "text" ->
                   [ret |-> RetText, disk |-> NO_FILE, cache |-> c,
                    log |-> [performed |-> FALSE, cleared |-> FALSE, served |-> None,
                             downloaded |-> None, cached |-> None, is_valid |-> FALSE,
                             candidates |-> <<>>]]
              [] decision = "serve" ->
                   served(cached_logo_url,
                          download_and_process_logo(cached_logo_url, env.downloaded))
              [] OTHER ->
                   extract_fresh(method, website_url,
                                 IF decision = "clear"
                                 THEN clear_cache(c, website_url)
                                 ELSE c,
                                 t, env, decision = "clear")
        \* line 47: cached_result.get on a value that is no dict raises
        \* AttributeError, which leaves extract_logo
        checked(cached_result) ==
            IF ~force_refresh /\ cached_result = NOT_A_DICT
            THEN [ret |-> RetRaise, disk |-> NO_FILE, cache |-> c,
                  log |-> [performed |-> FALSE, cleared |-> FALSE, served |-> None,
                           downloaded |-> None, cached |-> None, is_valid |-> FALSE,
                           candidates |-> <<>>]]
            ELSE decided(dict_get(cached_result, "logo_url", None),
                         cache_check(force_refresh, cached_result, t, env.head_cached))
    IN  checked(get_cached_result(c, website_url))

(***************************************************************************)
(* BeautifulSoupExtractor._perform_extraction                              *)
(* (logo_bot/extractors/beautifulsoup.py).  A page is what the three       *)
(* finders report: header_result (None, TEXT_BASED_LOGO or a URL), the     *)
(* ranked potential_logos (url, priority) and meta_logo (None or a URL).   *)
(***************************************************************************)
MaxCandidates == 1

LowPriority == 0 - 1

HighPriority == 5

Candidates == [url : URLS, priority : {LowPriority, HighPriority}]

RECURSIVE SeqsUpTo(_, _)
\* the sequences over S of length at most n
SeqsUpTo(S, n) ==
    IF n = 0
    THEN {<<>>}
    ELSE LET shorter == SeqsUpTo(S, n - 1)
         IN  shorter \cup {Append(q, x) : q \in shorter, x \in S}

Pages ==
    [header_result : {None, TEXT_BASED_LOGO} \cup URLS,
     potential_logos : SeqsUpTo(Candidates, MaxCandidates),
     meta_logo : {None} \cup URLS]

\* lines 66-84: the candidates the filter keeps
filtered_logos(potential_logos) ==
    SelectSeq(potential_logos,
              LAMBDA logo :
                  /\ ~facts[logo.url].nitro
                  /\ ~facts[logo.url].hero
                  /\ ~facts[logo.url].favicon
                  /\ ~facts[logo.url].icon
                  /\ ~(logo.priority < 0))

\* lines 89-94: the first filtered candidate with a valid, non-hero URL
first_candidate(logos, head) ==
    LET ok(i) == /\ facts[logos[i].url].valid[head]
                 /\ ~facts[logos[i].url].hero
    IN  IF \E i \in 1..Len(logos) : ok(i)
        THEN logos[CHOOSE i \in 1..Len(logos) :
                       ok(i) /\ \A j \in 1..(i - 1) : ~ok(j)].url
        ELSE None

\* lines 47-55: the test of the URL _find_header_logo returned
header_accepted(header_logo, head) ==
    /\ header_logo \notin {None, TEXT_BASED_LOGO}
    /\ facts[header_logo].valid[head]
    /\ ~facts[header_logo].hero
    /\ ~facts[header_logo].favicon

bs_perform_extraction(page, head) ==
    LET header_logo == page.header_result
        candidate == first_candidate(filtered_logos(page.potential_logos), head)
        meta_logo == page.meta_logo
    IN  IF page.header_result = TEXT_BASED_LOGO
        THEN PeText
        ELSE IF header_accepted(header_logo, head)
        THEN PeUrl(header_logo)
        ELSE IF candidate # None
        THEN PeUrl(candidate)
        ELSE IF /\ meta_logo # None
                /\ facts[meta_logo].valid[head]
                /\ ~facts[meta_logo].hero
                /\ ~facts[meta_logo].favicon
        THEN PeUrl(meta_logo)
        ELSE PeNone

\* what extract_logo_from_website (claude_v2.py), which has the same steps,
\* can yield, by the answer of the HEAD probe
BSOutcomes == [head \in BOOLEAN |-> {bs_perform_extraction(page, head) : page \in Pages}]

\* the pages of the package: _find_header_logo, _find_potential_logos and
\* _extract_logo_from_metadata return no favicon and no hero image,
\* _find_header_logo never TEXT_BASED_LOGO, and no priority is negative
PackagePages ==
    LET found(url) == url # TEXT_BASED_LOGO
                      /\ (url # None => ~facts[url].favicon /\ ~facts[url].hero)
    IN  {page \in Pages :
            /\ found(page.header_result)
            /\ found(page.meta_logo)
            /\ \A i \in 1..Len(page.potential_logos) :
                   /\ found(page.potential_logos[i].url)
                   /\ page.potential_logos[i].priority >= 0}

\* what the heuristic extraction of the package can yield
PackageOutcomes ==
    [head \in BOOLEAN |-> {bs_perform_extraction(page, head) : page \in PackagePages}]

(***************************************************************************)
(* The finders of BeautifulSoupExtractor on a parsed document.  A document *)
(* is a fetched page with one header element: its img elements in document *)
(* order (the src attribute, whether the element lies in the header, the   *)
(* class attribute, whether the parent is an anchor to "/"), whether the   *)
(* header holds an anchor with a logo class, href "/", text and no image,  *)
(* and the logo of its JSON-LD block.  The page has no alt texts, spans,   *)
(* style blocks or Open Graph tags.                                        *)
(***************************************************************************)
MaxImages == 2

\* the [:10] of _find_potential_logos
top_candidates == 10

Srcs == {"/img/logo.png", "//acme.com/img/Favicon.png", "img/hero-banner.jpg",
         "https://acme.com/img/cart-icon.png", "/brand/logo", "/img/acme.png"}

\* the img elements of the documents: no srcset, no alt text, no class on the
\* parent, no declared size
Elements == [src : Srcs, in_header : BOOLEAN, class : {"", "logo", "icon"},
             home_link : BOOLEAN, id : {0}, srcset : {""}, alt : {""},
             parent_class : {""}, width : {""}, height : {""}]

NoElement == [src |-> None, in_header |-> FALSE, class |-> "", home_link |-> FALSE,
              id |-> 0, srcset |-> "", alt |-> "", parent_class |-> "",
              width |-> "", height |-> ""]

\* srcset attributes: widths in either order, no width, a favicon, equal
\* widths, a hero image of the highest width
Srcsets ==
    {"",
     "/img/logo.png 100w, /img/acme.png 200w",
     "/img/acme.png 200w, /img/logo.png 100w",
     "/img/logo.png 2x, /img/acme.png",
     "/img/acme.png, /img/logo.png 100w",
     "//acme.com/img/Favicon.png 400w, /img/logo.png 100w",
     "/img/logo.png 100w, /brand/logo 100w",
     "img/hero-banner.jpg 300w, /img/logo.png 100w"}

Alts == {"", "Acme Logo", "header"}

\* img elements with a srcset, an alt text, a class on the parent and a
\* declared size
RichElements ==
    [src : {"/img/acme.png", "/brand/logo"}, in_header : BOOLEAN, class : {"", "logo"},
     home_link : BOOLEAN, id : {1}, srcset : Srcsets, alt : Alts,
     parent_class : {"", "logo"}, width : {"", "16", "64"}, height : {"", "16", "64"}]

\* the id attribute of an img element is its place in the document
numbered(imgs) == [i \in DOMAIN imgs |-> [imgs[i] EXCEPT !.id = i]]

Documents ==
    [text_logo_link : BOOLEAN,
     imgs : {numbered(imgs) : imgs \in SeqsUpTo(Elements, MaxImages)},
     json_ld_logo : {None, "/img/logo.png", "https://acme.com/img/cart-icon.png"}]

\* get_base_url(url) (logo_bot/utils/url.py): scheme and host
get_base_url(url) ==
    LET scheme == BeforeFirst(url, ":")
        netloc == BeforeFirst(SubSeq(url, Len(scheme) + 4, Len(url)), "/")
    IN  scheme \o "://" \o netloc

\* make_absolute_url(base_url, relative_url) (logo_bot/utils/url.py); urljoin
\* is the one of a base URL without a path
make_absolute_url(base_url, relative_url) ==
    IF StartsWith(relative_url, "//")
    THEN "https:" \o relative_url
    ELSE IF StartsWith(relative_url, "/")
    THEN get_base_url(base_url) \o relative_url
    ELSE IF ~(\/ StartsWith(relative_url, "http://")
              \/ StartsWith(relative_url, "https://")
              \/ StartsWith(relative_url, "data:"))
    THEN get_base_url(base_url) \o "/" \o relative_url
    ELSE relative_url

logo_keywords == {"logo", "brand", "header", "site-icon", "site-logo"}

\* what the finders read of a src attribute: the absolute URL, 'favicon' and
\* 'logo' in its lower case, a logo keyword in the absolute URL and the
\* ending of the absolute URL
SrcFacts ==
    [src \in Srcs |->
        [abs_url |-> make_absolute_url(WEBSITE_URL, src),
         favicon |-> HasFavicon(src),
         logo |-> names_logo(src),
         keyword |-> \E keyword \in logo_keywords :
                        Contains(lower(make_absolute_url(WEBSITE_URL, src)), keyword),
         format |-> lower(SplitExt(make_absolute_url(WEBSITE_URL, src)))]]

\* what the finders read of a class attribute
ClassFacts ==
    [class \in {"", "logo", "icon"} |->
        [logo |-> Contains(lower(class), "logo"),
         icon |-> Contains(lower(class), "icon"),
         keyword |-> \E keyword \in logo_keywords : Contains(lower(class), keyword)]]

\* lines 449-463: the URL and the width of one part of a srcset, the width 0
\* without a descriptor that ends in w and holds a number
srcset_part(part) ==
    LET parsed(digits) == IF IsDigits(digits) THEN int(digits) ELSE 0
        width(width_str) ==
            IF EndsWith(width_str, "w")
            THEN parsed(SubSeq(width_str, 1, Len(width_str) - 1))
            ELSE 0
        read(url_parts) ==
            [url |-> strip(url_parts[1]),
             width |-> width(IF Len(url_parts) >= 2 THEN strip(url_parts[2]) ELSE "")]
    IN  read(split(strip(part), " "))

RECURSIVE bs_highest_res_url(_, _)
\* lines 445-470 of _find_potential_logos: the loop over the parts of the
\* srcset, highest_res_url the URL it holds so far
bs_highest_res_url(srcset_parts, highest_res_url) ==
    IF srcset_parts = <<>>
    THEN highest_res_url
    ELSE LET kept(part, read) ==
                 IF part = "" \/ HasFavicon(read.url)
                 THEN highest_res_url
                 ELSE IF highest_res_url = None \/ read.width > 0
                 THEN read.url
                 ELSE highest_res_url
         IN  bs_highest_res_url(Tail(srcset_parts),
                                kept(strip(Head(srcset_parts)),
                                     srcset_part(Head(srcset_parts))))

\* what _find_potential_logos reads of a srcset attribute: its parts and the
\* URL lines 441-470 draw from it
SrcsetFacts ==
    LET read(srcset_parts) ==
            [parts |-> [i \in DOMAIN srcset_parts |-> srcset_part(srcset_parts[i])],
             highest_res_url |-> bs_highest_res_url(srcset_parts, None)]
    IN  [srcset \in Srcsets |->
            IF srcset = ""
            THEN [parts |-> <<>>, highest_res_url |-> None]
            ELSE read(split(srcset, ","))]

\* what _find_potential_logos reads of an alt attribute
AltFacts ==
    [alt \in Alts |->
        [keyword |-> \E keyword \in {"logo", "brand"} : Contains(lower(alt), keyword)]]

\* the first element of the sequence that satisfies the test
FirstElement(imgs, Test(_)) ==
    IF \E i \in 1..Len(imgs) : Test(imgs[i])
    THEN imgs[CHOOSE i \in 1..Len(imgs) : Test(imgs[i]) /\ \A j \in 1..(i - 1) : ~Test(imgs[j])]
    ELSE NoElement

\* _find_header_logo: the first image of the header, else the first image
\* with logo in its class or src, else the first with icon in its class, else
\* any image with logo in its src; it has no test for a text-based logo
bs_find_header_logo(doc) ==
    LET abs_url(img) == SrcFacts[img.src].abs_url
        returned(img) == /\ img # NoElement
                         /\ ~SrcFacts[img.src].favicon
                         /\ ~facts[abs_url(img)].hero
        contains_logo(img) == ClassFacts[img.class].logo \/ SrcFacts[img.src].logo
        contains_icon(img) == ~SrcFacts[img.src].favicon /\ ClassFacts[img.class].icon
        by_path(img) == SrcFacts[img.src].logo /\ returned(img)
        found(img, logo_img, icon_img, path_img) ==
            IF returned(img) THEN abs_url(img)
            ELSE IF returned(logo_img) THEN abs_url(logo_img)
            ELSE IF returned(icon_img) THEN abs_url(icon_img)
            ELSE IF path_img # NoElement THEN abs_url(path_img)
            ELSE None
    IN  found(FirstElement(doc.imgs, LAMBDA img : img.in_header),
              FirstElement(doc.imgs, contains_logo),
              FirstElement(doc.imgs, contains_icon),
              FirstElement(doc.imgs, by_path))

\* find_header_logo (claude_v2.py): the text-based logo first, then the
\* first image of the header that is no favicon, hero image or icon and that
\* names a logo or is wrapped in a link to the homepage
find_header_logo(doc) ==
    LET abs_url(img) == SrcFacts[img.src].abs_url
        returned(img) == /\ img.in_header
                         /\ ~SrcFacts[img.src].favicon
                         /\ ~facts[abs_url(img)].hero
                         /\ ~facts[abs_url(img)].icon
                         /\ \/ SrcFacts[img.src].logo
                            \/ ClassFacts[img.class].logo
                            \/ img.home_link
        found(img) == IF img # NoElement THEN abs_url(img) ELSE None
    IN  IF doc.text_logo_link
        THEN TEXT_BASED_LOGO
        ELSE found(FirstElement(doc.imgs, returned))

\* an element that _find_potential_logos skips
NoCandidate == [url |-> None, priority |-> 0, id |-> 0]

\* lines 396-553: the candidate of one img element, its priority the sum of
\* the signals; a favicon or a hero image is skipped
image_candidate(img) ==
    LET scored(abs_url, is_logo_in_url, format) ==
            IF SrcFacts[img.src].favicon \/ facts[abs_url].favicon \/ facts[abs_url].hero
            THEN NoCandidate
            ELSE [url |-> abs_url,
                  priority |->
                      (IF img.in_header THEN 15 ELSE 0)
                      + (IF is_logo_in_url THEN 10 ELSE 0)
                      + (IF AltFacts[img.alt].keyword THEN 8 ELSE 0)
                      + (IF ClassFacts[img.class].keyword THEN 7 ELSE 0)
                      + (IF ClassFacts[img.parent_class].keyword THEN 6 ELSE 0)
                      + (IF format = ".svg" THEN 5 ELSE IF format = ".png" THEN 3 ELSE 0)
                      + (IF img.home_link THEN 12 ELSE 0),
                  id |-> img.id]
        resolved(src) == scored(src.abs_url, src.keyword, src.format)
        chosen(highest_res_url) ==
            resolved(SrcFacts[IF highest_res_url # None THEN highest_res_url ELSE img.src])
    IN  chosen(SrcsetFacts[img.srcset].highest_res_url)

\* lines 584-618: the candidate of the JSON-LD logo, of priority 9
json_ld_candidate(logo_url) ==
    LET abs_url == SrcFacts[logo_url].abs_url
    IN  IF logo_url = None
        THEN NoCandidate
        ELSE IF SrcFacts[logo_url].favicon \/ facts[abs_url].hero
        THEN NoCandidate
        ELSE [url |-> abs_url, priority |-> 9, id |-> 0]

\* sorted(images, key = priority, reverse = True): the sort is stable
sorted_by_priority(images) ==
    LET before(i, j) == \/ images[i].priority > images[j].priority
                        \/ images[i].priority = images[j].priority /\ i < j
        place(i) == Cardinality({j \in 1..Len(images) : before(j, i)}) + 1
    IN  [k \in 1..Len(images) |-> images[CHOOSE i \in 1..Len(images) : place(i) = k]]

\* the images list of _find_potential_logos before it is sorted
collected_images(doc) ==
    LET candidates == [i \in 1..Len(doc.imgs) |-> image_candidate(doc.imgs[i])]
        harvested(candidate) == IF candidate = NoCandidate THEN <<>> ELSE <<candidate>>
    IN  SelectSeq(candidates, LAMBDA c : c # NoCandidate)
        \o harvested(json_ld_candidate(doc.json_ld_logo))

\* _find_potential_logos: no favicon, sorted by priority, the first 10
bs_find_potential_logos(doc) ==
    LET filtered_images == SelectSeq(collected_images(doc),
                                     LAMBDA img : ~facts[img.url].favicon)
        top(sorted_images) ==
            SubSeq(sorted_images, 1, IF Len(sorted_images) < top_candidates
                                     THEN Len(sorted_images)
                                     ELSE top_candidates)
    IN  top(sorted_by_priority(filtered_images))

\* _extract_logo_from_metadata: the logo of the JSON-LD block
extract_logo_from_metadata(doc) ==
    LET logo == doc.json_ld_logo
    IN  IF logo # None /\ ~facts[SrcFacts[logo].abs_url].hero
                       /\ ~SrcFacts[logo].favicon
        THEN SrcFacts[logo].abs_url
        ELSE None

\* what the three finders report of a document
page_of(doc) ==
    [header_result |-> bs_find_header_logo(doc),
     potential_logos |-> bs_find_potential_logos(doc),
     meta_logo |-> extract_logo_from_metadata(doc)]


(***************************************************************************)
(* ClaudeExtractor (logo_bot/extractors/claude.py).  A response of the     *)
(* agent is what the loop reads in its text: whether it says               *)
(* "LOGO TYPE: TEXT-BASED", the URL after "LOGO URL:" (None without one)   *)
(* and the image URLs it mentions; api_error is a failed API call.         *)
(***************************************************************************)
max_iterations == 8

MaxMentioned == 1

\* the URLs the image-URL pattern of the loop matches
ImageURLs == {u \in URLS : facts[u].agent_image_url}

AgentResponses ==
    [api_error : {FALSE}, text_based : BOOLEAN, logo_url : {None} \cup URLS,
     image_urls : SeqsUpTo(ImageURLs, MaxMentioned)]
    \cup {[api_error |-> TRUE, text_based |-> FALSE, logo_url |-> None,
           image_urls |-> <<>>]}

\* lines 196-214: the URL the loop picks among the mentioned image URLs
mentioned_logo(response) ==
    LET image_urls == SelectSeq(response.image_urls, LAMBDA u : ~facts[u].favicon)
        logo_urls == SelectSeq(image_urls,
                         LAMBDA u : facts[u].agent_logo_term /\ ~facts[u].hero)
        others == SelectSeq(image_urls, LAMBDA u : ~facts[u].hero)
    IN  IF logo_urls # <<>>
        THEN logo_urls[1]
        ELSE IF others # <<>>
        THEN others[1]
        ELSE None

\* one round that does not look for the text-based report
agent_round_without_text(response) ==
    IF response.api_error
    THEN PeRaise
    ELSE IF response.logo_url # None /\ ~facts[response.logo_url].favicon
    THEN PeUrl(response.logo_url)
    ELSE IF mentioned_logo(response) # None
    THEN PeUrl(mentioned_logo(response))
    ELSE PeNone

\* what one round decides: PeRaise, PeText, PeUrl(u), or PeNone to go on
agent_round(response) ==
    IF response.api_error
    THEN PeRaise
    ELSE IF response.text_based
    THEN PeText
    ELSE IF response.logo_url # None /\ ~facts[response.logo_url].favicon
    THEN PeUrl(response.logo_url)
    ELSE IF mentioned_logo(response) # None
    THEN PeUrl(mentioned_logo(response))
    ELSE PeNone

RoundOutcomes == {agent_round(response) : response \in AgentResponses}

RECURSIVE try_copy_image_address(_)
\* the outcomes of the loop from the given iteration on, with the number of
\* rounds run
try_copy_image_address(iteration) ==
    IF iteration >= max_iterations
    THEN {[pe |-> PeNone, rounds |-> iteration]}
    ELSE {[pe |-> o, rounds |-> iteration + 1] : o \in RoundOutcomes \ {PeNone}}
         \cup (IF PeNone \in RoundOutcomes
               THEN try_copy_image_address(iteration + 1)
               ELSE {})

\* _perform_extraction: None without an API key, else the result of the loop
claude_perform_extraction(api_key) ==
    IF ~api_key
    THEN {PeNone}
    ELSE {o.pe : o \in try_copy_image_address(0)}

ClaudeOutcomes == UNION {claude_perform_extraction(api_key) : api_key \in BOOLEAN}

(***************************************************************************)
(* GoogleExtractor (logo_bot/extractors/google.py).  The search result is  *)
(* the list of distinct http URLs a method collects from the page; an      *)
(* image datum is a URL with its width, height and format.                 *)
(***************************************************************************)
MaxCollected == 2

Range(q) == {q[i] : i \in 1..Len(q)}

Distinct(q) == \A i, j \in 1..Len(q) : i # j => q[i] # q[j]

\* q[:n]
Take(q, n) == SubSeq(q, 1, IF Len(q) < n THEN Len(q) ELSE n)

Collected == {q \in SeqsUpTo(URLS, MaxCollected) : Distinct(q)}

\* the size of the image behind a URL, as the thumbnail attributes and the
\* downloaded file give it
remote_size(url) ==
    IF facts[url].hero
    THEN [width |-> 1200, height |-> 400]
    ELSE [width |-> 64, height |-> 64]

image_datum(url) ==
    [url |-> url, width |-> remote_size(url).width,
     height |-> remote_size(url).height, format |-> facts[url].format]

\* priorities 1 to 4 over a list of URLs
by_priority(q) ==
    LET p1(x) == facts[x].on_domain /\ facts[x].names_logo
        p2(x) == facts[x].on_domain
        p3(x) == facts[x].names_logo /\ ~facts[x].social
        p4(x) == ~facts[x].social
        r1 == SelectSeq(q, LAMBDA x : ~p1(x))
        r2 == SelectSeq(r1, LAMBDA x : ~p2(x))
        r3 == SelectSeq(r2, LAMBDA x : ~p3(x))
    IN  SelectSeq(q, p1) \o SelectSeq(r1, p2) \o SelectSeq(r2, p3) \o SelectSeq(r3, p4)

\* SVG images first, then priorities 1 to 4; a list of image data is given
\* by the list of its URLs
prioritize_images(images) ==
    SelectSeq(images, LAMBDA u : image_datum(u).format = "svg")
    \o by_priority(SelectSeq(images, LAMBDA u : image_datum(u).format # "svg"))

\* should_prefer_png(png_url, other_url) of logo_bot/utils/qa.py
width_threshold == 200

height_threshold == 200

Abs(n) == IF n < 0 THEN 0 - n ELSE n

should_prefer_png(png_img, other_img) ==
    /\ png_img.width # 0 /\ png_img.height # 0
    /\ other_img.width # 0 /\ other_img.height # 0
    /\ Abs(png_img.width - other_img.width) <= width_threshold
    /\ Abs(png_img.height - other_img.height) <= height_threshold

IndexOf(q, x) == CHOOSE i \in 1..Len(q) : q[i] = x /\ \A j \in 1..(i - 1) : q[j] # x

RECURSIVE promote_pairs(_, _, _, _)
\* the nested loops of the PNG preference: for each PNG, for each JPG/WEBP,
\* swap the two when the other one is ahead and the sizes are similar
promote_pairs(images, pngs, others, k) ==
    IF k >= Len(pngs) * Len(others)
    THEN images
    ELSE LET png_img == pngs[(k \div Len(others)) + 1]
             other_img == others[(k % Len(others)) + 1]
             png_idx == IndexOf(images, png_img)
             other_idx == IndexOf(images, other_img)
             swapped == [images EXCEPT ![other_idx] = png_img, ![png_idx] = other_img]
         IN  promote_pairs(IF /\ other_idx < png_idx
                              /\ should_prefer_png(image_datum(png_img),
                                                   image_datum(other_img))
                           THEN swapped
                           ELSE images,
                           pngs, others, k + 1)

promote_png(images) ==
    LET pngs == SelectSeq(images, LAMBDA u : image_datum(u).format = "png")
        others == SelectSeq(images,
                            LAMBDA u : image_datum(u).format \in {"jpg", "jpeg", "webp"})
    IN  IF Len(images) > 1 /\ pngs # <<>> /\ others # <<>>
        THEN promote_pairs(images, pngs, others, 0)
        ELSE images

\* a list with its duplicates left in
with_duplicates(q) == q

\* a list without the later occurrences of its elements, as the seen_urls
\* set and the "not in filtered_urls" test leave it
without_duplicates(q) ==
    LET first == {i \in 1..Len(q) : \A j \in 1..(i - 1) : q[j] # q[i]}
        nth(k) == CHOOSE i \in first : Cardinality({j \in first : j < i}) = k - 1
    IN  [k \in 1..Cardinality(first) |-> q[nth(k)]]

\* the image-data branch shared by the two methods: filter, prioritise,
\* promote PNGs
prioritized_from_image_data(image_urls) ==
    LET promoted(images) == promote_png(images)
        prioritized(images) == promoted(prioritize_images(images))
    IN  prioritized(without_duplicates(
            SelectSeq(image_urls, LAMBDA u : ~facts[u].unwanted)))

\* _extract_logo_urls_with_selenium_fast: when the image data leave nothing,
\* the raw image_urls are prioritised, unfiltered
extract_logo_urls_with_selenium_fast(image_urls) ==
    LET prioritized_urls == prioritized_from_image_data(image_urls)
    IN  IF prioritized_urls # <<>>
        THEN Take(prioritized_urls, 3)
        ELSE Take(by_priority(image_urls), 3)

\* _extract_logo_urls_with_selenium: the fallback filters before prioritising
extract_logo_urls_with_selenium(high_quality_urls) ==
    LET prioritized_urls == prioritized_from_image_data(high_quality_urls)
        filtered_urls == without_duplicates(
                             SelectSeq(high_quality_urls, LAMBDA u : ~facts[u].unwanted))
        reprioritized == by_priority(filtered_urls)
    IN  IF prioritized_urls # <<>>
        THEN Take(prioritized_urls, 3)
        ELSE IF reprioritized # <<>>
        THEN Take(reprioritized, 3)
        ELSE Take(filtered_urls, 3)

\* _download_and_prioritize_logos(urls, folder_path); downloads_ok is the set
\* of URLs whose download succeeds
download_and_prioritize_logos(urls, downloads_ok) ==
    LET promoted(images) == promote_png(images)
        prioritized(images) == promoted(prioritize_images(images))
    IN  Take(prioritized(SelectSeq(urls, LAMBDA u : u \in downloads_ok)), 3)

\* _perform_extraction; selenium is "ok", "unavailable" or "error", or
\* "no_folder" when the candidate folder cannot be created, which raises
google_perform_extraction(selenium, fast_urls, thorough_urls, downloads_ok) ==
    LET fast == extract_logo_urls_with_selenium_fast(fast_urls)
        thorough == extract_logo_urls_with_selenium(thorough_urls)
    IN  IF selenium = "no_folder"
        THEN PeRaise
        ELSE IF selenium # "ok"
        THEN PeList(<<>>)
        ELSE IF fast # <<>>
        THEN PeList(download_and_prioritize_logos(fast, downloads_ok))
        ELSE IF thorough # <<>>
        THEN PeList(download_and_prioritize_logos(thorough, downloads_ok))
        ELSE PeList(<<>>)

\* what the image search can yield
GoogleOutcomes ==
    {google_perform_extraction(selenium, <<>>, <<>>, {}) :
        selenium \in {"no_folder", "unavailable", "error"}}
    \cup {google_perform_extraction("ok", fast_urls, <<>>, downloads_ok) :
             fast_urls \in Collected, downloads_ok \in SUBSET URLS}
    \cup {google_perform_extraction("ok", <<>>, thorough_urls, downloads_ok) :
             thorough_urls \in Collected, downloads_ok \in SUBSET URLS}

(***************************************************************************)
(* select_best_logo (logo_bot/utils/qa.py).  A score is the fraction       *)
(* num / den, kept exact; paths are told apart by their extension.         *)
(***************************************************************************)
Min(a, b) == IF a < b THEN a ELSE b

Max(a, b) == IF a < b THEN b ELSE a

\* the file at a path of the output directory, NO_FILE when there is none
file_at(fs, path) == IF path \in DOMAIN fs THEN fs[path] ELSE NO_FILE

format_score(ext) ==
    CASE ext = ".svg" -> 30
      [] ext = ".png" -> 20
      [] ext \in {".jpg", ".jpeg"} -> 10
      [] ext = ".webp" -> 15
      [] OTHER -> 5

\* the score of one candidate, shifted by 10 to stay non-negative
logo_score(file, path, source) ==
    LET ext == lower(path)
        bonus == IF source = "website" THEN 5 ELSE 0
        m == Max(1, Min(file.w, file.h))
        big == Max(file.w, file.h)
        pixels == file.w * file.h
        resolution == IF pixels > 40000 THEN Min(pixels, 300000) ELSE 0
        transparency == IF ext = ".png" /\ file.mode = "RGBA"
                           /\ file.bw * file.bh < file.w * file.h
                        THEN 15
                        ELSE 0
        aspect == IF big < 3 * m
                  THEN Max(0, 15 * m - 5 * big)
                  ELSE 0 - Min(10 * m, big - 3 * m)
    IN  IF ext = ".svg"
        THEN [num |-> 10 + 30 + bonus, den |-> 1]
        ELSE IF file = NO_FILE \/ ~file.decodable
        THEN [num |-> 10, den |-> 1]
        ELSE [num |-> (10 + format_score(ext) + transparency + bonus) * (10000 * m)
                      + resolution * m + aspect * 10000,
              den |-> 10000 * m]

RECURSIVE frac_cmp(_, _, _, _)
\* the sign of a/b - c/d, for a, c >= 0 and b, d > 0
frac_cmp(a, b, c, d) ==
    LET q1 == a \div b
        q2 == c \div d
        r1 == a % b
        r2 == c % d
    IN  IF q1 # q2 THEN (IF q1 < q2 THEN 0 - 1 ELSE 1)
        ELSE IF r1 = 0 /\ r2 = 0 THEN 0
        ELSE IF r1 = 0 THEN 0 - 1
        ELSE IF r2 = 0 THEN 1
        ELSE frac_cmp(d, r2, b, r1)

\* select_best_logo(logo_candidates): the path of the first candidate with
\* the highest score (the sort is stable), None for an empty list
select_best_logo(logo_candidates, fs) ==
    LET score(i) == logo_score(file_at(fs, logo_candidates[i].path),
                               logo_candidates[i].path, logo_candidates[i].source)
        beats(i, j) == frac_cmp(score(i).num, score(i).den, score(j).num, score(j).den)
        n == Len(logo_candidates)
    IN  IF n = 0 THEN None
        ELSE IF n = 1 THEN logo_candidates[1].path
        ELSE logo_candidates[
                 CHOOSE i \in 1..n :
                     /\ \A j \in 1..n : beats(i, j) >= 0
                     /\ \A j \in 1..(i - 1) : beats(j, i) < 0].path

(***************************************************************************)
(* compare_logos (logo_bot/utils/qa.py), on images of one colour.  A       *)
(* picture is an image file with the colour (r, g, b) of its pixels; the   *)
(* similarity is the fraction num / den, kept exact.                       *)
(***************************************************************************)
\* an image of one colour, every pixel opaque
Picture(ext, mode, w, h, color) ==
    [ext |-> ext, decodable |-> TRUE, mode |-> mode, w |-> w, h |-> h,
     bw |-> w, bh |-> h,
     white_pixels |-> IF \A i \in 1..3 : color[i] >= 240 THEN w * h ELSE 0,
     svg |-> FALSE, color |-> color]

Red == <<255, 0, 0>>

Blue == <<0, 0, 255>>

White == <<255, 255, 255>>

Black == <<0, 0, 0>>

Pictures ==
    {[ext |-> ".svg", decodable |-> FALSE, mode |-> "RGB", w |-> 0, h |-> 0,
      bw |-> 0, bh |-> 0, white_pixels |-> 0, svg |-> TRUE, color |-> Red],
     Picture(".png", "RGB", 100, 100, Red),
     Picture(".png", "RGB", 100, 100, Blue),
     Picture(".png", "RGB", 300, 300, Blue),
     Picture(".png", "RGBA", 200, 200, Red),
     Picture(".png", "RGB", 8, 8, Red),
     Picture(".jpeg", "RGB", 300, 300, Red),
     Picture(".jpeg", "RGB", 100, 100, Red),
     Picture(".jpeg", "RGB", 100, 100, Blue),
     Picture(".jpeg", "RGB", 100, 100, White),
     Picture(".png", "RGB", 300, 300, Black),
     [Picture(".png", "RGBA", 100, 100, Black) EXCEPT !.bw = 0, !.bh = 0]}

\* the float num / den
Similarity(num, den) == [none |-> FALSE, num |-> num, den |-> den]

\* the return value None
NoSimilarity == [none |-> TRUE, num |-> 0, den |-> 1]

\* arr1 - arr2 on one channel of two uint8 arrays; np.abs leaves it as it is
uint8_diff(a, b) == (a - b) % 256

\* lines 353-407 of compare_logos, the comparison of two raster files: None
\* when a file cannot be opened or the common size is under 10 pixels
compare_images(img1, img2) ==
    LET target_width == Min(Min(img1.w, img2.w), 300)
        target_height == Min(Min(img1.h, img2.h), 300)
        alpha == img1.mode # img2.mode \/ img1.mode = "RGBA"
        visible == img1.bw > 0 /\ img1.bh > 0 /\ img2.bw > 0 /\ img2.bh > 0
        diff == uint8_diff(img1.color[1], img2.color[1])
                + uint8_diff(img1.color[2], img2.color[2])
                + uint8_diff(img1.color[3], img2.color[3])
    IN  IF ~img1.decodable \/ ~img2.decodable
        THEN NoSimilarity
        ELSE IF target_width < 10 \/ target_height < 10
        THEN NoSimilarity
        ELSE IF alpha /\ ~visible
        THEN Similarity(0, 1)
        ELSE Similarity(3 * 255 - diff, 3 * 255)

\* compare_logos without lines 349-351: an SVG file is opened like any other
compare_logos_without_svg(img1, img2) == compare_images(img1, img2)

\* compare_logos(img1_path, img2_path) for the files at the two paths
compare_logos(img1, img2) ==
    IF lower(img1.ext) = ".svg" \/ lower(img2.ext) = ".svg"
    THEN Similarity(1, 1)
    ELSE compare_images(img1, img2)

\* get_image_pixels(image_path): 0 for a file PIL cannot open
get_image_pixels(img) == IF img.decodable THEN img.w * img.h ELSE 0

\* is_significantly_larger(img1_path, img2_path), threshold_factor = 1.5
is_significantly_larger(img1, img2) ==
    IF get_image_pixels(img2) = 0
    THEN get_image_pixels(img1) > 0
    ELSE 2 * get_image_pixels(img1) > 3 * get_image_pixels(img2)

(***************************************************************************)
(* The state machine.  Between runs (pc = "idle") time passes and the      *)
(* cache can be cleared; a run is one call of an orchestrator, a step of   *)
(* it one of its stages with everything the stage does.                    *)
(***************************************************************************)
MaxTicks == 1

TickStep == max_age

Methods == {"beautifulsoup", "google", "claude"}

\* the records cache_logo_url and cache_text_based_logo can have left in the
\* cache directory before the first run
StoredRecords ==
    {cache_logo_url(<<>>, WEBSITE_URL, u, m, 0)[WEBSITE_URL] : u \in URLS, m \in Methods}
    \cup {cache_text_based_logo(<<>>, WEBSITE_URL, m, 0)[WEBSITE_URL] : m \in Methods}

NoFiles == [path \in {} |-> NO_FILE]

NoCall ==
    [method |-> "none", force_refresh |-> FALSE, pre |-> NoRecord, ret |-> "none",
     url |-> None, performed |-> FALSE, cleared |-> FALSE, served |-> None, downloaded |-> None,
     cached |-> None, is_valid |-> FALSE, candidates |-> <<>>]

NoUnit == [fn |-> "none", args |-> <<>>, returned |-> FALSE, ret |-> None]

NoRun == [entry |-> "none", force_refresh |-> FALSE, use_claude_fallback |-> FALSE,
          use_google |-> FALSE]

Pending == [kind |-> "pending", path |-> None, error |-> FALSE]

ResNotFound == [kind |-> "NotFound", path |-> None, error |-> FALSE]

ResTextBased == [kind |-> "TextBased", path |-> None, error |-> FALSE]

ResLogo(path) == [kind |-> "Logo", path |-> path, error |-> FALSE]

ResEscaped == [kind |-> "Escaped", path |-> None, error |-> TRUE]

HeurPending == "pending"

Init ==
    /\ facts = Facts
    /\ web = [beautifulsoup |-> PackageOutcomes, monolith |-> BSOutcomes,
              google |-> GoogleOutcomes, claude |-> ClaudeOutcomes,
              agent_loop |-> claude_perform_extraction(TRUE)]
    /\ cache \in {[u \in {} |-> NoRecord]}
                 \cup {[u \in {WEBSITE_URL} |-> r] : r \in StoredRecords}
    /\ now = 0
    /\ pc = "idle"
    /\ run = NoRun
    /\ files = NoFiles
    /\ all_logos = <<>>
    /\ website_logo = None
    /\ google_logo = None
    /\ invoked = {}
    /\ performed = {}
    /\ heur = HeurPending
    /\ last = NoCall
    /\ result = Pending
    /\ unit = NoUnit

\* what _perform_extraction of the extractor can yield
PerformOutcomes(method, head) ==
    IF method = "beautifulsoup" THEN web.beautifulsoup[head] ELSE web[method]

\* the answers a HEAD probe of the URL can give that matter to the check
HeadAnswers(url) ==
    IF url \in URLS /\ facts[url].valid[TRUE] # facts[url].valid[FALSE]
    THEN BOOLEAN
    ELSE {FALSE}

\* the environments of one extract_logo call in the current state; what a
\* stage that does not run can yield is left out
CallEnvs(method, force_refresh) ==
    LET target(hc, h, pe) ==
            extract_logo(method, WEBSITE_URL, force_refresh, cache, now,
                         [pe |-> pe, head_cached |-> hc, head |-> h,
                          downloaded |-> RetNone]).log.downloaded
        downloads(url) == IF url = None THEN {RetNone} ELSE DownloadResults[url]
        envs(cached_result, hc, extracts) ==
            UNION {UNION {
                {[pe |-> pe, head_cached |-> hc, head |-> h, downloaded |-> d] :
                    d \in downloads(target(hc, h, pe))} :
                pe \in IF extracts THEN PerformOutcomes(method, h) ELSE {PeNone}} :
                h \in IF extracts THEN BOOLEAN ELSE {FALSE}}
        probed(cached_result) ==
            UNION {envs(cached_result, hc,
                        cache_check(force_refresh, cached_result, now, hc)
                            \in {"clear", "miss"}) :
                   hc \in HeadAnswers(dict_get(cached_result, "logo_url", None))}
    IN  probed(IF force_refresh THEN NoRecord ELSE get_cached_result(cache, WEBSITE_URL))

\* the outcomes an extract_logo call can have in the current state
Calls(method, force_refresh) ==
    {extract_logo(method, WEBSITE_URL, force_refresh, cache, now, env) :
        env \in CallEnvs(method, force_refresh)}

\* the record of a call, for the variable last
call_record(method, force_refresh, call) ==
    [method |-> method, force_refresh |-> force_refresh,
     pre |-> get_cached_result(cache, WEBSITE_URL), ret |-> call.ret.kind,
     url |-> call.ret.url,
     performed |-> call.log.performed, cleared |-> call.log.cleared,
     served |-> call.log.served, downloaded |-> call.log.downloaded,
     cached |-> call.log.cached, is_valid |-> call.log.is_valid,
     candidates |-> call.log.candidates]

\* the output directory after a call that left the file disk in it
written(fs, disk) == IF disk = NO_FILE THEN fs ELSE (disk.ext :> disk) @@ fs

\* the bookkeeping every extract_logo call of a run shares
Called(method, force_refresh, call) ==
    /\ cache' = call.cache
    /\ last' = call_record(method, force_refresh, call)
    /\ invoked' = invoked \cup {method}
    /\ performed' = performed \cup (IF call.log.performed THEN {method} ELSE {})

(***************************************************************************)
(* extract_logo_cli (logo_bot/main.py)                                     *)
(***************************************************************************)
\* extract_logo_cli without its except clause: the error leaves the call
cli_no_handler == ResEscaped

\* the outer except clause: the error is printed and None returned
cli_except == ResNotFound

\* lines 320-349 and 373-408: return the only or the best candidate; with no
\* candidate go on to the agent stage if it is enabled, else return None
cli_select(logos, fs, use_claude_fallback) ==
    IF logos # <<>>
    THEN [pc |-> "done", result |-> ResLogo(select_best_logo(logos, fs))]
    ELSE IF use_claude_fallback
    THEN [pc |-> "cli_claude", result |-> Pending]
    ELSE [pc |-> "done", result |-> ResNotFound]

\* the path in the "Auto-cropped image ..." line a call prints: process_logo_image
\* crops every valid RGBA file; None when no such line is printed
auto_crop_match(ret) ==
    IF ret.kind = "path" /\ ret.file.mode = "RGBA" THEN ret.file.ext ELSE None

\* step 1, lines 186-207: the heuristic stage and the second quality check
CliHeuristic(force_refresh, use_claude_fallback, use_google) ==
    /\ pc = "idle"
    /\ \E call \in Calls("beautifulsoup", force_refresh) :
         LET bs_result == call.ret
             fs1 == written(NoFiles, call.disk)
             processed == process_logo_image(bs_result.file)
             fs2 == written(fs1, processed.file)
             logos == IF bs_result.kind = "path" /\ processed.is_valid
                      THEN <<[path |-> bs_result.file.ext, source |-> "website"]>>
                      ELSE <<>>
             next == IF bs_result.kind = "raise"
                     THEN [pc |-> "done", result |-> cli_except]
                     ELSE IF bs_result.kind = "text"
                     THEN [pc |-> "done", result |-> ResTextBased]
                     ELSE IF use_google
                     THEN [pc |-> "cli_google", result |-> Pending]
                     ELSE cli_select(logos, fs2, use_claude_fallback)
         IN  /\ Called("beautifulsoup", force_refresh, call)
             /\ run' = [entry |-> "cli", force_refresh |-> force_refresh,
                        use_claude_fallback |-> use_claude_fallback,
                        use_google |-> use_google]
             /\ heur' = bs_result.kind
             /\ files' = IF bs_result.kind = "path" THEN fs2 ELSE fs1
             /\ all_logos' = logos
             /\ pc' = next.pc
             /\ result' = next.result
    /\ UNCHANGED <<unit, facts, web, now, website_logo, google_logo>>

\* step 2, lines 209-317: the image-search stage.  extract_logo returns a
\* path, not a URL list, so a candidate is added only through the
\* "Auto-cropped image" line of the captured output: google_logo_urls[0] is
\* the first character of the path and never a URL
CliGoogle ==
    /\ pc = "cli_google"
    /\ \E call \in Calls("google", run.force_refresh) :
         LET google_logo_urls == call.ret
             fs1 == written(files, call.disk)
             cropped_path == auto_crop_match(google_logo_urls)
             logos == IF cropped_path # None
                      THEN Append(all_logos, [path |-> cropped_path, source |-> "google"])
                      ELSE all_logos
             next == IF google_logo_urls.kind = "raise"
                     THEN [pc |-> "done", result |-> cli_except]
                     ELSE IF cropped_path # None /\ ~run.use_claude_fallback
                     THEN [pc |-> "done", result |-> ResLogo(cropped_path)]
                     ELSE cli_select(logos, fs1, run.use_claude_fallback)
         IN  /\ Called("google", run.force_refresh, call)
             /\ files' = fs1
             /\ all_logos' = IF google_logo_urls.kind = "raise" THEN all_logos ELSE logos
             /\ pc' = next.pc
             /\ result' = next.result
    /\ UNCHANGED <<unit, facts, web, now, run, website_logo, google_logo, heur>>

\* step 3, lines 351-408: the agent stage and the final selection
CliClaude ==
    /\ pc = "cli_claude"
    /\ \E call \in Calls("claude", run.force_refresh) :
         LET claude_result == call.ret
             fs1 == written(files, call.disk)
             processed == process_logo_image(claude_result.file)
             fs2 == written(fs1, processed.file)
             logos == IF claude_result.kind = "path" /\ processed.is_valid
                      THEN Append(all_logos, [path |-> claude_result.file.ext,
                                              source |-> "claude"])
                      ELSE all_logos
             next == IF claude_result.kind = "raise"
                     THEN [pc |-> "done", result |-> cli_except]
                     ELSE IF claude_result.kind = "text"
                     THEN [pc |-> "done", result |-> ResTextBased]
                     ELSE cli_select(logos, fs2, FALSE)
         IN  /\ Called("claude", run.force_refresh, call)
             /\ files' = IF claude_result.kind = "path" THEN fs2 ELSE fs1
             /\ all_logos' = logos
             /\ pc' = next.pc
             /\ result' = next.result
    /\ UNCHANGED <<unit, facts, web, now, run, website_logo, google_logo, heur>>

(***************************************************************************)
(* The API endpoint extract_logo (logo_bot/api/routes.py)                  *)
(***************************************************************************)
\* the except clause: an error response, success = False
api_except == [kind |-> "NotFound", path |-> None, error |-> TRUE]

\* processed_path if processed_path else result, for a truthy result
api_logo_path(ret) == IF ret.kind = "text" THEN TEXT_BASED_LOGO ELSE ret.file.ext

\* lines 250-305: with a logo from either source, select_best_logo is called
\* with two arguments and its result unpacked into three names; the function
\* takes one list, so the call raises TypeError and the except clause answers
api_select(website, google) ==
    IF website # None \/ google # None
    THEN api_except
    ELSE ResNotFound

\* a text-based verdict followed by the agent stage
api_after_text_agent(use_google) == [pc |-> "api_claude", result |-> Pending]

\* lines 78-135 and 157-214: after a text-based verdict the image search is
\* tried if it is enabled, otherwise the text-based response is returned
api_after_text(use_google) ==
    IF use_google
    THEN [pc |-> "api_text_google", result |-> Pending]
    ELSE [pc |-> "done", result |-> ResTextBased]

\* lines 151-153 and 232-233: the stage after the heuristic or agent stage
api_after_website(website, use_claude_fallback, use_google, agent_done) ==
    IF website = None /\ use_claude_fallback /\ ~agent_done
    THEN [pc |-> "api_claude", result |-> Pending]
    ELSE IF use_google
    THEN [pc |-> "api_google", result |-> Pending]
    ELSE [pc |-> "done", result |-> api_select(website, None)]

\* lines 72-149: the heuristic stage
ApiHeuristic(force_refresh, use_claude_fallback, use_google) ==
    /\ pc = "idle"
    /\ \E call \in Calls("beautifulsoup", force_refresh) :
         LET bs_result == call.ret
             website == IF bs_result.kind = "path" THEN api_logo_path(bs_result) ELSE None
             next == IF bs_result.kind = "raise"
                     THEN [pc |-> "done", result |-> api_except]
                     ELSE IF bs_result.kind = "text"
                     THEN api_after_text(use_google)
                     ELSE api_after_website(website, use_claude_fallback, use_google, FALSE)
         IN  /\ Called("beautifulsoup", force_refresh, call)
             /\ run' = [entry |-> "api", force_refresh |-> force_refresh,
                        use_claude_fallback |-> use_claude_fallback,
                        use_google |-> use_google]
             /\ heur' = bs_result.kind
             /\ website_logo' = website
             /\ pc' = next.pc
             /\ result' = next.result
    /\ UNCHANGED <<unit, facts, web, now, files, all_logos, google_logo>>

\* lines 81-126 and 160-205: the image search tried after a text-based
\* verdict of the heuristic or the agent stage
ApiTextGoogle ==
    /\ pc = "api_text_google"
    /\ \E call \in Calls("google", run.force_refresh) :
         LET google_result == call.ret
             found == google_result.kind \in {"text", "path"}
         IN  /\ Called("google", run.force_refresh, call)
             /\ google_logo' = IF found THEN api_logo_path(google_result) ELSE None
             /\ pc' = "done"
             /\ result' = IF google_result.kind = "raise" THEN api_except
                           ELSE IF found THEN ResLogo(api_logo_path(google_result))
                           ELSE ResTextBased
    /\ UNCHANGED <<unit, facts, web, now, run, files, all_logos, website_logo, heur>>

\* lines 151-229: the agent stage
ApiClaude ==
    /\ pc = "api_claude"
    /\ \E call \in Calls("claude", run.force_refresh) :
         LET claude_result == call.ret
             website == IF claude_result.kind = "path"
                        THEN api_logo_path(claude_result)
                        ELSE None
             next == IF claude_result.kind = "raise"
                     THEN [pc |-> "done", result |-> api_except]
                     ELSE IF claude_result.kind = "text"
                     THEN api_after_text(run.use_google)
                     ELSE api_after_website(website, run.use_claude_fallback,
                                            run.use_google, TRUE)
         IN  /\ Called("claude", run.force_refresh, call)
             /\ website_logo' = website
             /\ pc' = next.pc
             /\ result' = next.result
    /\ UNCHANGED <<unit, facts, web, now, run, files, all_logos, google_logo, heur>>

\* lines 231-313: the image-search stage and the selection
ApiGoogle ==
    /\ pc = "api_google"
    /\ \E call \in Calls("google", run.force_refresh) :
         LET google_result == call.ret
             google == IF google_result.kind \in {"text", "path"}
                       THEN api_logo_path(google_result)
                       ELSE None
         IN  /\ Called("google", run.force_refresh, call)
             /\ google_logo' = google
             /\ pc' = "done"
             /\ result' = IF google_result.kind = "raise"
                           THEN api_except
                           ELSE api_select(website_logo, google)
    /\ UNCHANGED <<unit, facts, web, now, run, files, all_logos, website_logo, heur>>

(***************************************************************************)
(* download_company_logo (claude_v2.py), the monolith.  It keeps its own   *)
(* copies of the heuristics, of the heuristic extraction and of the agent  *)
(* loop, shares the cache directory, and returns a path or None.           *)
(***************************************************************************)
\* the test lines 124 and 187 apply to a URL and to its higher-quality version
mono_url_ok(url, head) ==
    /\ url # None
    /\ facts[url].valid[head]
    /\ ~facts[url].hero
    /\ ~facts[url].icon

\* the path download_image saves to: the extension comes from the URL
mono_output_path(image_url) ==
    LET file_ext == lower(SplitExt(BeforeFirst(image_url, "?")))
    IN  IF file_ext \in valid_extensions THEN file_ext ELSE ".png"

\* download_image(image_url, website_url): response is the first answer with
\* status 200 among the attempts, NoResponse without one.  Whatever the body,
\* it is saved, cropped if it can be, and its path returned
mono_download_image(image_url, response) ==
    IF response.ok
    THEN RetPath(image_url,
                 IF response.body.decodable /\ response.body.mode = "RGBA"
                 THEN auto_crop_image(response.body)
                 ELSE response.body)
    ELSE RetNone

\* lines 124-146 and 187-212: take the higher-quality version if it passes,
\* cache the URL, then download it
mono_accept(c, t, logo_url, high_quality_url, head, method, response) ==
    LET url == IF /\ high_quality_url # None
                  /\ high_quality_url # logo_url
                  /\ mono_url_ok(high_quality_url, head)
               THEN high_quality_url
               ELSE logo_url
    IN  [cache |-> cache_logo_url(c, WEBSITE_URL, url, method, t),
         ret |-> mono_download_image(url, response)]

\* lines 72-99: the cache check, which reads no timestamp.  json.load
\* stands in no try block: a file that does not parse raises, and so does
\* cache_data.get on a document that is no object
mono_cache_check(force_refresh, c, head) ==
    LET cache_data == get_cached_result(c, WEBSITE_URL)
        cached_logo_url == dict_get(cache_data, "logo_url", None)
    IN  IF force_refresh \/ WEBSITE_URL \notin DOMAIN c
        THEN "miss"
        ELSE IF c[WEBSITE_URL] \in {UNREADABLE, NOT_A_DICT}
        THEN "raise"
        ELSE IF dict_get(cache_data, "text_based_logo", FALSE)
        THEN "text"
        ELSE IF cached_logo_url = None
        THEN "miss"
        ELSE IF facts[cached_logo_url].hero
        THEN "clear"
        ELSE IF facts[cached_logo_url].valid[head]
        THEN "serve"
        ELSE "clear"

\* the path a returned download is saved at, None for None
mono_result(ret) ==
    IF ret.kind = "path"
    THEN ResLogo(mono_output_path(ret.url))
    ELSE IF ret.kind = "raise"
    THEN ResEscaped
    ELSE ResNotFound

\* lines 72-149: the cache check and the heuristic stage.  env: head_cached
\* and head, the HEAD probes; logo_result, what extract_logo_from_website
\* yields; high_quality_url, what try_find_higher_quality_version yields;
\* response, the answer to the download
mono_heuristic(force_refresh, use_claude_fallback, c, t, env) ==
    LET decision == mono_cache_check(force_refresh, c, env.head_cached)
        cached_logo_url == dict_get(get_cached_result(c, WEBSITE_URL), "logo_url", None)
        c1 == IF decision = "clear" THEN clear_cache(c, WEBSITE_URL) ELSE c
        logo_url == IF env.logo_result.kind = "url" THEN env.logo_result.urls[1] ELSE None
        served == mono_download_image(cached_logo_url, env.response)
        accepted == mono_accept(c1, t, logo_url, env.high_quality_url, env.head,
                                "beautifulsoup", env.response)
    IN  IF decision = "raise"
        THEN [cache |-> c, extracted |-> FALSE, heur |-> HeurPending, ret |-> RetRaise,
              pc |-> "done"]
        ELSE IF decision = "text"
        THEN [cache |-> c, extracted |-> FALSE, heur |-> HeurPending, ret |-> RetNone,
              pc |-> "done"]
        ELSE IF decision = "serve"
        THEN [cache |-> c, extracted |-> FALSE, heur |-> HeurPending, ret |-> served,
              pc |-> "done"]
        ELSE IF env.logo_result.kind = "text"
        THEN [cache |-> cache_text_based_logo(c1, WEBSITE_URL, "beautifulsoup", t),
              extracted |-> TRUE, heur |-> "text", ret |-> RetNone, pc |-> "done"]
        ELSE IF mono_url_ok(logo_url, env.head)
        THEN [cache |-> accepted.cache, extracted |-> TRUE, heur |-> accepted.ret.kind,
              ret |-> accepted.ret, pc |-> "done"]
        ELSE [cache |-> c1, extracted |-> TRUE, heur |-> "none", ret |-> RetNone,
              pc |-> IF use_claude_fallback THEN "mono_claude" ELSE "done"]

MonoEnvs ==
    [head_cached : HeadAnswers(dict_get(get_cached_result(cache, WEBSITE_URL),
                                        "logo_url", None)),
     head : BOOLEAN,
     logo_result : web.monolith[TRUE] \cup web.monolith[FALSE],
     high_quality_url : {None} \cup URLS,
     response : Responses]

MonoHeuristic(force_refresh, use_claude_fallback) ==
    /\ pc = "idle"
    /\ \E env \in MonoEnvs :
         LET stage == mono_heuristic(force_refresh, use_claude_fallback, cache, now, env)
             decision == mono_cache_check(force_refresh, cache, env.head_cached)
             cached_logo_url == dict_get(get_cached_result(cache, WEBSITE_URL),
                                         "logo_url", None)
         IN  /\ env.logo_result \in web.monolith[env.head]
             /\ last' = [NoCall EXCEPT
                            !.method = "download_company_logo",
                            !.force_refresh = force_refresh,
                            !.pre = get_cached_result(cache, WEBSITE_URL),
                            !.ret = stage.ret.kind,
                            !.url = stage.ret.url,
                            !.performed = stage.extracted,
                            !.cleared = (decision = "clear"),
                            !.served = IF decision = "serve"
                                       THEN cached_logo_url ELSE None]
             /\ cache' = stage.cache
             /\ invoked' = IF stage.extracted THEN {"beautifulsoup"} ELSE {}
             /\ performed' = invoked'
             /\ heur' = stage.heur
             /\ pc' = stage.pc
             /\ result' = IF stage.pc = "done" THEN mono_result(stage.ret) ELSE Pending
    /\ run' = [entry |-> "monolith", force_refresh |-> force_refresh,
               use_claude_fallback |-> use_claude_fallback, use_google |-> FALSE]
    /\ UNCHANGED <<unit, facts, web, now, files, all_logos, website_logo, google_logo>>

\* lines 151-223: the agent stage.  No handler surrounds the API calls of the
\* loop: an API error leaves download_company_logo
mono_claude(c, t, env) ==
    LET logo_url == IF env.agent.kind = "url" THEN env.agent.urls[1] ELSE None
        accepted == mono_accept(c, t, logo_url, env.high_quality_url, env.head,
                                "claude", env.response)
    IN  IF ~env.api_key
        THEN [cache |-> c, called |-> FALSE, result |-> ResNotFound, ret |-> RetNone]
        ELSE IF env.agent.kind = "raise"
        THEN [cache |-> c, called |-> TRUE, result |-> ResEscaped, ret |-> RetNone]
        ELSE IF env.agent.kind = "text"
        THEN [cache |-> cache_text_based_logo(c, WEBSITE_URL, "claude", t),
              called |-> TRUE, result |-> ResNotFound, ret |-> RetNone]
        ELSE IF mono_url_ok(logo_url, env.head)
        THEN [cache |-> accepted.cache, called |-> TRUE,
              result |-> mono_result(accepted.ret), ret |-> accepted.ret]
        ELSE [cache |-> c, called |-> TRUE, result |-> ResNotFound, ret |-> RetNone]

MonoClaude ==
    /\ pc = "mono_claude"
    /\ \E env \in [api_key : BOOLEAN, agent : web.agent_loop,
                    head : BOOLEAN, high_quality_url : {None} \cup URLS,
                    response : Responses] :
         LET stage == mono_claude(cache, now, env)
         IN  /\ cache' = stage.cache
             /\ invoked' = invoked \cup (IF stage.called THEN {"claude"} ELSE {})
             /\ performed' = invoked'
             /\ result' = stage.result
    /\ pc' = "done"
    /\ UNCHANGED <<unit, facts, web, now, run, files, all_logos, website_logo, google_logo, heur, last>>

(***************************************************************************)
(* Between runs                                                            *)
(***************************************************************************)
\* the caller has the result; the locals of the run are gone
Finish ==
    /\ pc = "done"
    /\ pc' = "idle"
    /\ run' = NoRun
    /\ files' = NoFiles
    /\ all_logos' = <<>>
    /\ website_logo' = None
    /\ google_logo' = None
    /\ invoked' = {}
    /\ performed' = {}
    /\ heur' = HeurPending
    /\ last' = NoCall
    /\ result' = Pending
    /\ UNCHANGED <<unit, facts, web, cache, now>>

\* time passes
Tick ==
    /\ pc = "idle"
    /\ now < MaxTicks * TickStep
    /\ now' = now + TickStep
    /\ UNCHANGED <<unit, facts, web, cache, pc, run, files, all_logos, website_logo, google_logo,
                   invoked, performed, heur, last, result>>

\* DELETE /cache of the API, with a URL or without: clear_cache
ClearCache(url) ==
    /\ pc = "idle"
    /\ cache' = clear_cache(cache, url)
    /\ UNCHANGED <<unit, facts, web, now, pc, run, files, all_logos, website_logo, google_logo,
                   invoked, performed, heur, last, result>>

Next ==
    \/ \E force_refresh, use_claude_fallback, use_google \in BOOLEAN :
          CliHeuristic(force_refresh, use_claude_fallback, use_google)
    \/ CliGoogle
    \/ CliClaude
    \/ \E force_refresh, use_claude_fallback, use_google \in BOOLEAN :
          ApiHeuristic(force_refresh, use_claude_fallback, use_google)
    \/ ApiTextGoogle
    \/ ApiClaude
    \/ ApiGoogle
    \/ \E force_refresh, use_claude_fallback \in BOOLEAN :
          MonoHeuristic(force_refresh, use_claude_fallback)
    \/ MonoClaude
    \/ Finish
    \/ Tick
    \/ \E url \in {WEBSITE_URL, None} : ClearCache(url)

Spec == Init /\ [][Next]_vars

\* the orchestrators started on a cache directory whose file for the website
\* is corrupt
CorruptInit ==
    /\ facts = Facts
    /\ web = [beautifulsoup |-> PackageOutcomes, monolith |-> BSOutcomes,
              google |-> GoogleOutcomes, claude |-> ClaudeOutcomes,
              agent_loop |-> claude_perform_extraction(TRUE)]
    /\ cache \in {[u \in {WEBSITE_URL} |-> r] : r \in {UNREADABLE, NOT_A_DICT}}
    /\ now = 0
    /\ pc = "idle"
    /\ run = NoRun
    /\ files = NoFiles
    /\ all_logos = <<>>
    /\ website_logo = None
    /\ google_logo = None
    /\ invoked = {}
    /\ performed = {}
    /\ heur = HeurPending
    /\ last = NoCall
    /\ result = Pending
    /\ unit = NoUnit

CorruptSpec == CorruptInit /\ [][Next]_vars

(***************************************************************************)
(* Properties.  last is the latest extract_logo call of the running run:   *)
(* pre the record it found, ret and url what it returned, served the       *)
(* cached URL it downloaded, cached what it wrote.                         *)
(***************************************************************************)
PackageCall == last.method \in Methods

ReadCachedUrl ==
    /\ ~last.force_refresh
    /\ "logo_url" \in DOMAIN last.pre

StoredNow == get_cached_result(cache, WEBSITE_URL)

\* C1: extract_logo returns a path only for a URL that passes
\* is_valid_image_url, is neither a hero image nor an icon, and whose file
\* passed the quality check, on the cache branch as well
C1_PathOnlyForAcceptedUrl ==
    (PackageCall /\ last.ret = "path") =>
        /\ \E head \in BOOLEAN : facts[last.url].valid[head]
        /\ ~facts[last.url].hero
        /\ ~facts[last.url].icon
        /\ last.is_valid

\* C2: a CLI or API extract call never lets an exception escape; whatever
\* the stages return or raise, the call ends with NotFound, TextBased or a
\* logo result
C2_CallResolves ==
    /\ run.entry \in {"cli", "api"} => result.kind # "Escaped"
    /\ (pc = "done" /\ run.entry \in {"cli", "api"}) =>
           result.kind \in {"NotFound", "TextBased", "Logo"}

C2_RaisingStageResolved ==
    /\ pc = "done"
    /\ run.entry = "cli"
    /\ last.ret = "raise"
    /\ result = ResNotFound

\* C3: once a text-based result is cached, the record has text_based_logo
\* true and no logo_url, and an extract_logo call without force_refresh that
\* finds such a record returns TEXT_BASED_LOGO without running
\* _perform_extraction
C3_TextRecordShortCircuits ==
    /\ (PackageCall /\ last.cached = TEXT_BASED_LOGO) =>
           /\ dict_get(StoredNow, "text_based_logo", FALSE)
           /\ "logo_url" \notin DOMAIN StoredNow
    /\ (PackageCall /\ ~last.force_refresh
                    /\ dict_get(last.pre, "text_based_logo", FALSE)) =>
           /\ last.ret = "text"
           /\ ~last.performed

C3_TextServedAfterCaching ==
    /\ "claude" \in performed
    /\ last.method = "google"
    /\ ~last.force_refresh
    /\ dict_get(last.pre, "method", None) = "claude"
    /\ dict_get(last.pre, "text_based_logo", FALSE)
    /\ last.ret = "text"
    /\ ~last.performed

\* C4: an extract_logo call that returns None has written no cache record
C4_NoneLeavesNoRecord ==
    (PackageCall /\ last.ret = "none") => last.cached = None

\* C5: every stored record has a logo_url or text_based_logo = true, never
\* both and never neither
C5_ExactlyOneOfUrlOrText ==
    \A u \in DOMAIN cache :
        ("logo_url" \in DOMAIN cache[u]) # dict_get(cache[u], "text_based_logo", FALSE)

C5_UrlRecordReplacedByText ==
    /\ PackageCall
    /\ "logo_url" \in DOMAIN last.pre
    /\ last.cached = TEXT_BASED_LOGO
    /\ dict_get(StoredNow, "text_based_logo", FALSE)

\* C6 as stated: a call that reads a cached logo_url the hero heuristic
\* rejects deletes the record and runs _perform_extraction
C6_HeroRecordDeleted ==
    (last.method # "none" /\ ReadCachedUrl /\ facts[last.pre.logo_url].hero) =>
        /\ StoredNow # last.pre
        /\ last.performed

\* C6: a call that reads a cached logo_url the hero heuristic rejects, from a
\* record younger than max_age (of any age in download_company_logo),
\* deletes the record and runs the extraction
C6_FreshHeroRecordDeleted ==
    (/\ last.method # "none"
     /\ ReadCachedUrl
     /\ facts[last.pre.logo_url].hero
     /\ (PackageCall => is_cache_valid(last.pre, now))) =>
        /\ StoredNow # last.pre
        /\ last.performed

C6_HeroRecordCleared ==
    /\ PackageCall
    /\ ReadCachedUrl
    /\ facts[last.pre.logo_url].hero
    /\ is_cache_valid(last.pre, now)
    /\ last.cleared
    /\ last.performed
    /\ WEBSITE_URL \notin DOMAIN cache

\* C7: when a check that extract_logo runs on a cached logo_url fails (the
\* hero check, the image-URL check, the download or the quality check), the
\* record is gone when the call returns
C7_FailingRecordRemoved ==
    (/\ PackageCall
     /\ ReadCachedUrl
     /\ last.cleared \/ (last.served # None /\ last.ret = "none")) =>
        StoredNow # last.pre

\* C8: extract_logo never caches, downloads or returns a URL that contains
\* "favicon" in any letter case
C8_NoFaviconAccepted ==
    PackageCall =>
        \A u \in {last.cached, last.downloaded, last.url, last.served} \cap URLS :
            ~facts[u].favicon

\* C9: the agent runs only in a run that opted in to the agent fallback and
\* whose heuristic stage returned no logo that passed the quality check
C9_AgentOnlyAfterFailedHeuristic ==
    "claude" \in performed => (run.use_claude_fallback /\ heur # "path")

C11_EveryCandidateTried ==
    (PackageCall /\ last.performed /\ last.ret \in {"path", "none"}) =>
        /\ last.ret = "path" =>
               \E i \in 1..Len(last.candidates) :
                   /\ last.candidates[i] = last.url
                   /\ \A j \in 1..(i - 1) : last.candidates[j] = last.downloaded
        /\ last.ret = "none" =>
               \A i \in 1..Len(last.candidates) : last.candidates[i] = last.downloaded

\* the candidates the selection of a finished run was given
SelectionCandidates ==
    IF run.entry = "api"
    THEN {website_logo, google_logo} \ {None}
    ELSE {all_logos[i].path : i \in DOMAIN all_logos}

\* C15: a run that ends after a stage returned a path or nothing, with exactly
\* one candidate collected, answers with that candidate
C15_SingleCandidateReturned ==
    (/\ pc = "done"
     /\ run.entry \in {"api", "cli"}
     /\ last.ret \in {"path", "none"}
     /\ Cardinality(SelectionCandidates) = 1) =>
        \E candidate \in SelectionCandidates : result = ResLogo(candidate)

\* the cache file of the website is corrupt
CorruptStored ==
    /\ WEBSITE_URL \in DOMAIN cache
    /\ cache[WEBSITE_URL] \in {UNREADABLE, NOT_A_DICT}

\* C24: an unreadable or invalid cache record is a cache miss: once a call
\* that reads the cache has met it, the record is gone (deleted, or replaced
\* by what the extraction cached) and no exception has left the call.
C24_CorruptRecordIsMiss ==
    (last.method # NoCall.method /\ ~last.force_refresh) =>
        /\ ~CorruptStored
        /\ last.pre = NOT_A_DICT => last.ret # "raise"
        /\ last.method = "download_company_logo" => result # ResEscaped

\* C28: an image-search or agent call that follows the heuristic extraction
\* of the same run, force_refresh off, serves no cached logo_url and returns
\* a text-based verdict only from its own extraction.
C28_NoRecordOfAnotherMethodServed ==
    (/\ last.method \in {"google", "claude"}
     /\ ~last.force_refresh
     /\ "beautifulsoup" \in performed) =>
        /\ last.served = None
        /\ last.ret = "text" => last.performed

\* the record the call has read is younger than 7 days
ReadYoung == now - dict_get(last.pre, "timestamp", 0) < 7 * 24 * 60 * 60

\* extract_logo has read a logo_url record of 7 days or more
ReadStaleUrl ==
    /\ PackageCall
    /\ ReadCachedUrl
    /\ ~ReadYoung

\* extract_logo serves a logo_url only from a record younger than 7 days and
\* returns a cached text-based verdict at any age
ServedWhileYoung ==
    /\ (PackageCall /\ last.served # None) =>
           /\ ~last.force_refresh
           /\ ReadYoung
    /\ (PackageCall /\ ~last.force_refresh
                    /\ dict_get(last.pre, "text_based_logo", FALSE)) =>
           /\ last.ret = "text"
           /\ ~last.performed

\* C29 as stated: a logo_url record is served only while younger than 7 days;
\* an older one is neither served nor deleted, the extraction runs, and the
\* record is replaced only if the extraction accepts a URL; a text-based
\* record ends the call at any age.
C29_StaleRecordReplacedByUrlOnly ==
    /\ ServedWhileYoung
    /\ ReadStaleUrl =>
           /\ last.served = None
           /\ ~last.cleared
           /\ last.performed
           /\ StoredNow # NoRecord
           /\ StoredNow # last.pre => last.cached \notin {None, TEXT_BASED_LOGO}

\* C29: a logo_url record is served only while younger than 7 days; an older
\* one is neither served nor deleted, the extraction runs, and the record is
\* replaced only if the extraction accepts a URL or reports a text-based
\* logo, the new record holding what was accepted; a text-based record ends
\* the call at any age.
C29_StaleRecordReplacedByVerdict ==
    /\ ServedWhileYoung
    /\ ReadStaleUrl =>
           /\ last.served = None
           /\ ~last.cleared
           /\ last.performed
           /\ StoredNow # NoRecord
           /\ StoredNow # last.pre =>
                  /\ last.cached # None
                  /\ last.cached = TEXT_BASED_LOGO =>
                         dict_get(StoredNow, "text_based_logo", FALSE)
                  /\ last.cached # TEXT_BASED_LOGO =>
                         dict_get(StoredNow, "logo_url", None) = last.cached

\* the agent extraction reads a logo_url record of 7 days, reports a
\* text-based logo and leaves a text-based record in its place
C29_StaleUrlReplacedByText ==
    /\ ReadStaleUrl
    /\ last.method = "claude"
    /\ last.performed
    /\ last.cached = TEXT_BASED_LOGO
    /\ dict_get(StoredNow, "text_based_logo", FALSE)
    /\ "logo_url" \notin DOMAIN StoredNow

(***************************************************************************)
(* The library functions of logo_bot/utils/qa.py called on their own, as   *)
(* the tests of logo_bot/tests/test_logo_comparison.py call them.          *)
(***************************************************************************)
\* the output directory holding the pictures
picture_files(pictures) == [path \in {p.ext : p \in pictures} |->
                              CHOOSE p \in pictures : p.ext = path]

\* a website candidate and an image-search candidate, or one of the two
SelectorArgs ==
    {[logo_candidates |-> <<[path |-> pq[1].ext, source |-> "website"],
                            [path |-> pq[2].ext, source |-> "google"]>>,
      fs |-> picture_files({pq[1], pq[2]})] :
        pq \in {pq \in Pictures \X Pictures : pq[1].ext # pq[2].ext}}
    \cup {[logo_candidates |-> <<[path |-> p.ext, source |-> source]>>,
           fs |-> picture_files({p})] : p \in Pictures, source \in {"website", "google"}}

CompareArgs == [img1 : Pictures, img2 : Pictures]

\* the files the quality functions are called on: the downloaded images, a
\* white image, a white image that is also too small, a fully transparent
\* image, a file that is no image, a file named .svg that holds no SVG, and a
\* path with no file
QualityFiles ==
    Images \cup
    {IMG_WHITE,
     [IMG_WHITE EXCEPT !.w = 16, !.h = 16, !.bw = 16, !.bh = 16, !.white_pixels = 256],
     [IMG_GOOD EXCEPT !.bw = 0, !.bh = 0],
     [IMG_GOOD EXCEPT !.decodable = FALSE],
     [IMG_SVG EXCEPT !.svg = FALSE],
     NO_FILE}

QualityArgs == [file : QualityFiles]

UnitInit ==
    /\ facts = Facts
    /\ web = <<>>
    /\ cache = <<>>
    /\ now = 0
    /\ pc = "idle"
    /\ run = NoRun
    /\ files = NoFiles
    /\ all_logos = <<>>
    /\ website_logo = None
    /\ google_logo = None
    /\ invoked = {}
    /\ performed = {}
    /\ heur = HeurPending
    /\ last = NoCall
    /\ result = Pending
    /\ \/ unit \in {[NoUnit EXCEPT !.fn = "select_best_logo", !.args = args] :
                        args \in SelectorArgs}
       \/ unit \in {[NoUnit EXCEPT !.fn = "compare_logos", !.args = args] :
                        args \in CompareArgs}
       \/ unit \in {[NoUnit EXCEPT !.fn = fn, !.args = args] :
                        fn \in {"check_logo_quality", "validate_and_fix_logo"},
                        args \in QualityArgs}

SelectBestLogo ==
    /\ unit.fn = "select_best_logo"
    /\ ~unit.returned
    /\ unit' = [unit EXCEPT !.returned = TRUE,
                            !.ret = select_best_logo(unit.args.logo_candidates,
                                                     unit.args.fs)]
    /\ UNCHANGED mainvars

CompareLogos ==
    /\ unit.fn = "compare_logos"
    /\ ~unit.returned
    /\ unit' = [unit EXCEPT !.returned = TRUE,
                            !.ret = compare_logos(unit.args.img1, unit.args.img2)]
    /\ UNCHANGED mainvars

CheckLogoQuality ==
    /\ unit.fn = "check_logo_quality"
    /\ ~unit.returned
    /\ LET returned(issues) ==
               [is_valid |-> Len(issues) = 0, issues |-> issues,
                ran |-> quality_checks_run(unit.args.file)]
       IN  unit' = [unit EXCEPT !.returned = TRUE,
                                !.ret = returned(check_logo_quality(unit.args.file))]
    /\ UNCHANGED mainvars

ValidateAndFixLogo ==
    /\ unit.fn = "validate_and_fix_logo"
    /\ ~unit.returned
    /\ unit' = [unit EXCEPT !.returned = TRUE,
                            !.ret = validate_and_fix_logo(unit.args.file)]
    /\ UNCHANGED mainvars

UnitNext ==
    \/ SelectBestLogo
    \/ CompareLogos
    \/ CheckLogoQuality
    \/ ValidateAndFixLogo

UnitSpec == UnitInit /\ [][UnitNext]_vars

\* a call of select_best_logo with a website and an image-search candidate
\* has returned
SelectedOfTwo ==
    /\ unit.fn = "select_best_logo"
    /\ unit.returned
    /\ Len(unit.args.logo_candidates) = 2

WebsiteCandidate == unit.args.fs[unit.args.logo_candidates[1].path]

SearchCandidate == unit.args.fs[unit.args.logo_candidates[2].path]

\* compare_logos finds the two candidates similar: a similarity of 0.6 or more
CandidatesSimilar ==
    LET similar(s) == ~s.none /\ 10 * s.num >= 6 * s.den
    IN  similar(compare_logos(WebsiteCandidate, SearchCandidate))

\* C12: of an SVG candidate and a PNG candidate that are similar, the selector
\* returns the SVG, whichever of them is the website candidate and whatever
\* the size of the PNG
C12_SvgBeatsSimilarPng ==
    (/\ SelectedOfTwo
     /\ {WebsiteCandidate.ext, SearchCandidate.ext} = {".svg", ".png"}
     /\ CandidatesSimilar)
        => unit.ret = ".svg"

\* C13: of two similar raster candidates one of which has more than 1.5 times
\* the pixels of the other, the selector returns the larger, whichever of
\* them is the website candidate
C13_LargerOfSimilarWins ==
    (/\ SelectedOfTwo
     /\ WebsiteCandidate.decodable /\ SearchCandidate.decodable
     /\ CandidatesSimilar)
        => /\ is_significantly_larger(WebsiteCandidate, SearchCandidate)
                => unit.ret = WebsiteCandidate.ext
           /\ is_significantly_larger(SearchCandidate, WebsiteCandidate)
                => unit.ret = SearchCandidate.ext

\* C14: of two dissimilar candidates (similarity below 0.6), one of the
\* website and one of the image search, the selector returns the website
\* candidate
C14_WebsiteOfDissimilarWins ==
    LET similarity == compare_logos(WebsiteCandidate, SearchCandidate)
    IN  (/\ SelectedOfTwo
         /\ ~similarity.none
         /\ 10 * similarity.num < 6 * similarity.den)
            => unit.ret = WebsiteCandidate.ext

\* a call of compare_logos has returned
Compared ==
    /\ unit.fn = "compare_logos"
    /\ unit.returned

\* C19: compare_logos of a solid red and a solid blue RGB image of one size
\* returns a similarity below 0.5
C19_RedBlueBelowHalf ==
    (/\ Compared
     /\ unit.args.img1.decodable /\ unit.args.img2.decodable
     /\ unit.args.img1.mode = "RGB" /\ unit.args.img2.mode = "RGB"
     /\ unit.args.img1.w = unit.args.img2.w /\ unit.args.img1.h = unit.args.img2.h
     /\ unit.args.img1.w >= 10 /\ unit.args.img1.h >= 10
     /\ unit.args.img1.color = Red /\ unit.args.img2.color = Blue)
        => /\ ~unit.ret.none
           /\ 2 * unit.ret.num < unit.ret.den

\* the two files are SVG files or files PIL opens
Readable == \A img \in {unit.args.img1, unit.args.img2} : img.svg \/ img.decodable

EitherSvg == unit.args.img1.svg \/ unit.args.img2.svg

\* the common size compare_logos resizes to is at least 10 pixels each way
Comparable ==
    \/ EitherSvg
    \/ /\ Min(unit.args.img1.w, unit.args.img2.w) >= 10
       /\ Min(unit.args.img1.h, unit.args.img2.h) >= 10

\* the image has a pixel of alpha above 10
Visible(img) == img.bw > 0 /\ img.bh > 0

C30_CompareLogosSymmetric ==
    (Compared /\ ~EitherSvg) =>
        LET swapped == compare_logos(unit.args.img2, unit.args.img1)
        IN  /\ unit.ret.none = swapped.none
            /\ unit.ret.num * swapped.den = swapped.num * unit.ret.den

\* the file a quality function was called on has no issue
Flawless(file) ==
    /\ ~is_corrupted_image(file)
    /\ file.ext = ".svg" \/ (~is_all_white_or_transparent(file) /\ ~is_too_small(file))

\* C21: check_logo_quality answers is_valid exactly when its issue list is
\* empty; for a corrupted file the list holds the corruption issue alone and
\* the whiteness and size checks are not run; for a raster file that is not
\* corrupted the whiteness issue, if any, comes before the size issue, if any;
\* validate_and_fix_logo returns (path, true, no issue) for a file with no
\* issue and (None, false, the issues) for any other file.
C21_QualityVerdict ==
    /\ (unit.fn = "check_logo_quality" /\ unit.returned) =>
          LET file == unit.args.file
              white == IF is_all_white_or_transparent(file) THEN <<IMAGE_WHITE>> ELSE <<>>
              small == IF is_too_small(file) THEN <<IMAGE_SMALL>> ELSE <<>>
          IN  /\ unit.ret.is_valid <=> unit.ret.issues = <<>>
              /\ unit.ret.is_valid <=> Flawless(file)
              /\ is_corrupted_image(file) =>
                    /\ unit.ret.issues \in {<<SVG_CORRUPTED>>, <<IMAGE_CORRUPTED>>}
                    /\ unit.ret.ran = <<"is_corrupted_image">>
              /\ (~is_corrupted_image(file) /\ file.ext # ".svg") =>
                    unit.ret.issues = white \o small
    /\ (unit.fn = "validate_and_fix_logo" /\ unit.returned) =>
          IF Flawless(unit.args.file)
          THEN unit.ret = [path |-> TRUE, is_valid |-> TRUE, issues |-> <<>>]
          ELSE /\ ~unit.ret.path
               /\ ~unit.ret.is_valid
               /\ unit.ret.issues # <<>>
               /\ unit.ret.issues = check_logo_quality(unit.args.file)

\* a white image that is also too small has been checked: both issues are
\* listed, the whiteness issue first
C21_WhiteAndSmallChecked ==
    /\ unit.fn = "check_logo_quality"
    /\ unit.returned
    /\ ~is_corrupted_image(unit.args.file)
    /\ unit.ret.issues = <<IMAGE_WHITE, IMAGE_SMALL>>
    /\ ~unit.ret.is_valid

(***************************************************************************)
(* _perform_extraction of BeautifulSoupExtractor and find_header_logo of   *)
(* claude_v2.py called on a document.                                      *)
(***************************************************************************)
MaxLongImages == 12

Repeat(img, n) == [i \in 1..n |-> img]

\* an image wrapped in a link to the homepage whose file name is that of an
\* icon, and an image with nothing that names a logo
LongElements ==
    {[src |-> "https://acme.com/img/cart-icon.png", in_header |-> FALSE, class |-> "",
      home_link |-> TRUE, id |-> 0, srcset |-> "", alt |-> "", parent_class |-> "",
      width |-> "", height |-> ""],
     [src |-> "/img/acme.png", in_header |-> FALSE, class |-> "", home_link |-> FALSE,
      id |-> 0, srcset |-> "", alt |-> "", parent_class |-> "", width |-> "",
      height |-> ""]}

\* the documents with up to MaxLongImages images, of one kind and then of
\* another
LongDocuments ==
    {[text_logo_link |-> FALSE,
      imgs |-> numbered(Repeat(runs[1], runs[3]) \o Repeat(runs[2], runs[4])),
      json_ld_logo |-> None] :
        runs \in {runs \in LongElements \X LongElements
                            \X (0..MaxLongImages) \X (0..MaxLongImages) :
                      runs[3] + runs[4] <= MaxLongImages}}

DocumentURLS == {SrcFacts[src].abs_url : src \in Srcs}

DocInit ==
    /\ facts = FactsOf(DocumentURLS)
    /\ web = <<>>
    /\ cache = <<>>
    /\ now = 0
    /\ pc = "idle"
    /\ run = NoRun
    /\ files = NoFiles
    /\ all_logos = <<>>
    /\ website_logo = None
    /\ google_logo = None
    /\ invoked = {}
    /\ performed = {}
    /\ heur = HeurPending
    /\ last = NoCall
    /\ result = Pending
    /\ \/ unit \in {[NoUnit EXCEPT !.fn = "_perform_extraction",
                                   !.args = [doc |-> doc, head |-> head]] :
                        doc \in Documents \cup LongDocuments, head \in BOOLEAN}
       \/ unit \in {[NoUnit EXCEPT !.fn = "find_header_logo",
                                   !.args = [doc |-> doc, head |-> FALSE]] :
                        doc \in {doc \in Documents : doc.json_ld_logo = None}}
       \/ unit \in {[NoUnit EXCEPT !.fn = "_find_potential_logos",
                                   !.args = [doc |-> [text_logo_link |-> FALSE,
                                                      imgs |-> <<img>>,
                                                      json_ld_logo |-> None]]] :
                        img \in RichElements}

\* BeautifulSoupExtractor._perform_extraction: what it returns, what
\* _find_header_logo reported, whether _find_potential_logos was called and
\* the list left of its candidates by the filter of lines 66-84
PerformExtraction ==
    /\ unit.fn = "_perform_extraction"
    /\ ~unit.returned
    /\ LET returned(page) ==
               [result |-> bs_perform_extraction(page, unit.args.head),
                header_result |-> page.header_result,
                scanned |-> ~header_accepted(page.header_result, unit.args.head),
                filtered_logos |-> filtered_logos(page.potential_logos)]
       IN  unit' = [unit EXCEPT !.returned = TRUE,
                                !.ret = returned(page_of(unit.args.doc))]
    /\ UNCHANGED mainvars

FindHeaderLogo ==
    /\ unit.fn = "find_header_logo"
    /\ ~unit.returned
    /\ unit' = [unit EXCEPT !.returned = TRUE, !.ret = find_header_logo(unit.args.doc)]
    /\ UNCHANGED mainvars

\* _find_potential_logos called on a document of one img element
FindPotentialLogos ==
    /\ unit.fn = "_find_potential_logos"
    /\ ~unit.returned
    /\ unit' = [unit EXCEPT !.returned = TRUE,
                            !.ret = bs_find_potential_logos(unit.args.doc)]
    /\ UNCHANGED mainvars

DocNext ==
    \/ PerformExtraction
    \/ FindHeaderLogo
    \/ FindPotentialLogos

DocSpec == DocInit /\ [][DocNext]_vars

\* _perform_extraction has returned
Extracted ==
    /\ unit.fn = "_perform_extraction"
    /\ unit.returned

\* the first image of the header
HeaderImage == FirstElement(unit.args.doc.imgs, LAMBDA img : img.in_header)

HeaderImageUrl == SrcFacts[HeaderImage.src].abs_url

\* the disqualifier filter: a valid image URL, no hero image, no icon and no
\* favicon
Survives(url) ==
    /\ facts[url].valid[unit.args.head]
    /\ ~facts[url].hero
    /\ ~facts[url].icon
    /\ ~facts[url].favicon

\* C16: when the first image of the header survives the disqualifier filter,
\* the extraction yields its absolute URL and _find_potential_logos is not
\* called; when it does not survive, _find_potential_logos is called
C16_HeaderShortCircuit ==
    (Extracted /\ HeaderImage # NoElement) =>
        /\ Survives(HeaderImageUrl) =>
               /\ unit.ret.result = PeUrl(HeaderImageUrl)
               /\ ~unit.ret.scanned
        /\ ~Survives(HeaderImageUrl) => unit.ret.scanned

\* C17: a document whose header holds a text anchor with a logo class and a
\* link to the homepage, and no image, yields TEXT_BASED_LOGO
C17_TextAnchorYieldsTextBased ==
    (Extracted /\ unit.args.doc.text_logo_link /\ HeaderImage = NoElement) =>
        unit.ret.result = PeText

\* C18: the candidates the extraction tries are the discovered candidates that
\* pass the disqualifier filter, sorted by priority with ties in discovery
\* order, cut to the first 10
C18_FilteredSortedTopTen ==
    LET passing == SelectSeq(collected_images(unit.args.doc),
                             LAMBDA img : Survives(img.url))
        ranked == sorted_by_priority(passing)
        tried == SelectSeq(unit.ret.filtered_logos,
                           LAMBDA img : facts[img.url].valid[unit.args.head])
    IN  (Extracted /\ unit.ret.scanned) =>
            tried = SubSeq(ranked, 1, IF Len(ranked) < top_candidates
                                      THEN Len(ranked)
                                      ELSE top_candidates)

(***************************************************************************)
(* ClaudeExtractor._perform_extraction round by round: one step for each   *)
(* call of the messages API in the loop of _try_copy_image_address, and    *)
(* one for the return of _perform_extraction.  unit.iteration counts the   *)
(* API calls made, unit.exited tells that the loop was left by break or    *)
(* return, unit.response is the latest answer of the agent.                *)
(***************************************************************************)
NoAgentResponse ==
    [api_error |-> FALSE, text_based |-> FALSE, logo_url |-> None, image_urls |-> <<>>]

AgentCall(api_key) ==
    [fn |-> "claude_perform_extraction", args |-> [api_key |-> api_key],
     returned |-> FALSE, ret |-> PeNone, iteration |-> 0, exited |-> FALSE,
     logo_url |-> None, text_based_logo |-> FALSE, response |-> NoAgentResponse]

AgentInit ==
    /\ facts = Facts
    /\ web = <<>>
    /\ cache = <<>>
    /\ now = 0
    /\ pc = "idle"
    /\ run = NoRun
    /\ files = NoFiles
    /\ all_logos = <<>>
    /\ website_logo = None
    /\ google_logo = None
    /\ invoked = {}
    /\ performed = {}
    /\ heur = HeurPending
    /\ last = NoCall
    /\ result = Pending
    /\ unit \in {AgentCall(api_key) : api_key \in BOOLEAN}

\* claude.py:40-43: no API key, no agent
AgentNoKey ==
    /\ unit.fn = "claude_perform_extraction"
    /\ ~unit.returned
    /\ ~unit.args.api_key
    /\ unit' = [unit EXCEPT !.returned = TRUE, !.ret = PeNone]
    /\ UNCHANGED mainvars

\* one iteration of "for iteration in range(max_iterations)"
AgentRound ==
    /\ unit.fn = "claude_perform_extraction"
    /\ ~unit.returned
    /\ unit.args.api_key
    /\ ~unit.exited
    /\ unit.iteration < max_iterations
    /\ \E response \in AgentResponses :
         LET after(outcome) ==
                 IF outcome.kind = "raise"
                 THEN [unit EXCEPT !.iteration = @ + 1, !.response = response,
                                   !.returned = TRUE, !.ret = PeRaise]
                 ELSE IF outcome.kind = "text"
                 THEN [unit EXCEPT !.iteration = @ + 1, !.response = response,
                                   !.exited = TRUE, !.text_based_logo = TRUE]
                 ELSE IF outcome.kind = "url"
                 THEN [unit EXCEPT !.iteration = @ + 1, !.response = response,
                                   !.exited = TRUE, !.logo_url = outcome.urls[1]]
                 ELSE [unit EXCEPT !.iteration = @ + 1, !.response = response]
         IN  unit' = after(agent_round(response))
    /\ UNCHANGED mainvars

\* claude.py:49-69: the loop is over; what _perform_extraction returns
AgentReturn ==
    /\ unit.fn = "claude_perform_extraction"
    /\ ~unit.returned
    /\ unit.args.api_key
    /\ unit.exited \/ unit.iteration >= max_iterations
    /\ unit' = [unit EXCEPT
                  !.returned = TRUE,
                  !.ret = IF unit.logo_url = None /\ unit.text_based_logo
                          THEN PeText
                          ELSE IF unit.logo_url # None
                          THEN PeUrl(unit.logo_url)
                          ELSE PeNone]
    /\ UNCHANGED mainvars

AgentNext ==
    \/ AgentNoKey
    \/ AgentRound
    \/ AgentReturn

\* the loop is sequential code: it goes on as long as a step is left to take
AgentSpec == AgentInit /\ [][AgentNext]_vars /\ WF_vars(AgentNext)

\* the agent's API answered in the latest round (the call did not raise)
AgentAnswered == unit.iteration > 0 /\ ~unit.response.api_error

AgentBounded ==
    /\ unit.iteration <= max_iterations
    /\ unit.returned =>
          /\ unit.ret.kind \in {"url", "text", "none", "raise"}
          /\ unit.ret.kind = "raise" <=> unit.response.api_error
          /\ unit.ret.kind = "url" => Len(unit.ret.urls) = 1 /\ unit.ret.urls[1] \in URLS
          /\ (AgentAnswered /\ unit.response.text_based) => unit.ret = PeText
          /\ (AgentAnswered /\ agent_round(unit.response) = PeNone) =>
                 /\ unit.iteration = max_iterations
                 /\ unit.ret = PeNone

MaxSearched == 4

\* max_images = min(3, len(thumbs))
max_images == 3

SearchURLS ==
    URLS \cup {"https://acme.com/img/team.jpg", "https://cdn.example.net/acme.png",
               "https://twitter.com/acme/photo.jpg"}

FastCollected == {q \in SeqsUpTo(SearchURLS, MaxSearched) : Distinct(q)}

ThoroughCollected == SeqsUpTo(SearchURLS, max_images)

\* the downloads all succeed, or all but the one of a URL
SearchDownloads == {SearchURLS} \cup {SearchURLS \ {u} : u \in SearchURLS}

SearchArgs ==
    {[selenium |-> selenium, fast_urls |-> <<>>, thorough_urls |-> <<>>,
      downloads_ok |-> {}] : selenium \in {"no_folder", "unavailable", "error"}}
    \cup {[selenium |-> "ok", fast_urls |-> q, thorough_urls |-> <<>>,
           downloads_ok |-> ok] : q \in FastCollected, ok \in SearchDownloads}
    \cup {[selenium |-> "ok", fast_urls |-> <<>>, thorough_urls |-> q,
           downloads_ok |-> ok] : q \in ThoroughCollected, ok \in SearchDownloads}

SearchInit ==
    /\ facts = FactsOf(SearchURLS)
    /\ web = <<>>
    /\ cache = <<>>
    /\ now = 0
    /\ pc = "idle"
    /\ run = NoRun
    /\ files = NoFiles
    /\ all_logos = <<>>
    /\ website_logo = None
    /\ google_logo = None
    /\ invoked = {}
    /\ performed = {}
    /\ heur = HeurPending
    /\ last = NoCall
    /\ result = Pending
    /\ unit \in {[NoUnit EXCEPT !.fn = "google_perform_extraction", !.args = args] :
                    args \in SearchArgs}

\* GoogleExtractor._perform_extraction: what it returns, and the lists the two
\* Selenium methods handed to it
GooglePerformExtraction ==
    /\ unit.fn = "google_perform_extraction"
    /\ ~unit.returned
    /\ unit' = [unit EXCEPT
                  !.returned = TRUE,
                  !.ret = [result |-> google_perform_extraction(
                                          unit.args.selenium, unit.args.fast_urls,
                                          unit.args.thorough_urls, unit.args.downloads_ok),
                           fast |-> extract_logo_urls_with_selenium_fast(
                                        unit.args.fast_urls),
                           thorough |-> extract_logo_urls_with_selenium(
                                            unit.args.thorough_urls)]]
    /\ UNCHANGED mainvars

SearchNext == GooglePerformExtraction

SearchSpec == SearchInit /\ [][SearchNext]_vars

\* an ordered list of at most 3 URLs, none twice, all among the collected
SearchResult(urls, collected) ==
    /\ Len(urls) <= 3
    /\ Distinct(urls)
    /\ Range(urls) \subseteq Range(collected)

\* C23: the image search returns an ordered list of at most 3 URLs, no URL
\* twice, each one of the URLs collected from the result page, on the fast
\* and on the thorough path, after prioritisation and PNG promotion.
C23_AtMostThreeDistinctCollected ==
    (unit.fn = "google_perform_extraction" /\ unit.returned /\ unit.args.selenium = "ok") =>
        /\ unit.ret.result.kind = "list"
        /\ SearchResult(unit.ret.result.urls,
                        unit.args.fast_urls \o unit.args.thorough_urls)
        /\ SearchResult(unit.ret.fast, unit.args.fast_urls)
        /\ SearchResult(unit.ret.thorough, unit.args.thorough_urls)

\* the thorough path collected a URL twice and two distinct URLs are returned
C23_DuplicateCollected ==
    /\ unit.fn = "google_perform_extraction"
    /\ unit.returned
    /\ unit.args.thorough_urls # <<>>
    /\ ~Distinct(unit.args.thorough_urls)
    /\ Len(unit.ret.result.urls) = 2

(***************************************************************************)
(* BaseExtractor.extract_logo called twice, in the same environment, on    *)
(* two cache directories: the state variable cache and unit.args.other.    *)
(***************************************************************************)
PriorCaches ==
    {[u \in {} |-> NoRecord]} \cup {[u \in {WEBSITE_URL} |-> r] : r \in StoredRecords}

RefreshInit ==
    /\ facts = Facts
    /\ web = [beautifulsoup |-> PackageOutcomes, monolith |-> BSOutcomes,
              google |-> GoogleOutcomes, claude |-> ClaudeOutcomes,
              agent_loop |-> claude_perform_extraction(TRUE)]
    /\ cache \in PriorCaches
    /\ now = 0
    /\ pc = "idle"
    /\ run = NoRun
    /\ files = NoFiles
    /\ all_logos = <<>>
    /\ website_logo = None
    /\ google_logo = None
    /\ invoked = {}
    /\ performed = {}
    /\ heur = HeurPending
    /\ last = NoCall
    /\ result = Pending
    /\ unit \in {[NoUnit EXCEPT !.fn = "extract_logo",
                                !.args = [method |-> method,
                                          force_refresh |-> force_refresh,
                                          other |-> other]] :
                    method \in Methods, force_refresh \in BOOLEAN, other \in PriorCaches}

\* the call on cache and the call on unit.args.other, the stages answering
\* the two alike
ExtractLogoTwice ==
    /\ unit.fn = "extract_logo"
    /\ ~unit.returned
    /\ \E env \in CallEnvs(unit.args.method, unit.args.force_refresh) :
          unit' = [unit EXCEPT
                     !.returned = TRUE,
                     !.ret = [first |-> extract_logo(unit.args.method, WEBSITE_URL,
                                                     unit.args.force_refresh,
                                                     cache, now, env),
                              second |-> extract_logo(unit.args.method, WEBSITE_URL,
                                                      unit.args.force_refresh,
                                                      unit.args.other, now, env)]]
    /\ UNCHANGED mainvars

RefreshNext == ExtractLogoTwice

RefreshSpec == RefreshInit /\ [][RefreshNext]_vars

\* C25: with force_refresh set, two calls of extract_logo that differ in the
\* prior cache contents alone return the same result, and neither serves a
\* cached logo_url or a cached text-based flag: the extraction is performed.
C25_ForceRefreshBypassesCache ==
    (unit.fn = "extract_logo" /\ unit.returned /\ unit.args.force_refresh) =>
        /\ unit.ret.first.ret = unit.ret.second.ret
        /\ unit.ret.first.disk = unit.ret.second.disk
        /\ unit.ret.first.log = unit.ret.second.log
        /\ \A call \in {unit.ret.first, unit.ret.second} :
              /\ call.log.served = None
              /\ call.log.performed
              /\ ~call.log.cleared

\* a forced call on a cache holding a URL that would be served and on a cache
\* holding the text-based flag, the extraction accepting another URL
C25_ForcedOverServableRecord ==
    /\ unit.fn = "extract_logo"
    /\ unit.returned
    /\ unit.args.force_refresh
    /\ cache_check(FALSE, get_cached_result(cache, WEBSITE_URL), now, TRUE) = "serve"
    /\ cache_check(FALSE, get_cached_result(unit.args.other, WEBSITE_URL), now, TRUE) = "text"
    /\ unit.ret.first.ret.kind = "path"
    /\ unit.ret.first.ret.url # get_cached_result(cache, WEBSITE_URL).logo_url

(***************************************************************************)
(* Properties of _find_potential_logos on a document of one img element    *)
(***************************************************************************)
\* _find_potential_logos has returned a candidate for the img element
CandidateFound ==
    /\ unit.fn = "_find_potential_logos"
    /\ unit.returned
    /\ unit.ret # <<>>

\* the parts of the srcset of the img element that are no favicon and declare
\* the highest width of these
WidestParts ==
    LET parts == {part \in Range(SrcsetFacts[unit.args.doc.imgs[1].srcset].parts) :
                      ~HasFavicon(part.url) /\ part.width > 0}
    IN  {part \in parts : \A other \in parts : other.width <= part.width}

\* C26: the URL of the candidate of an img element whose srcset declares
\* widths is the entry of the highest declared width, in whatever order the
\* entries are listed.
C26_SrcsetHighestWidth ==
    (CandidateFound /\ WidestParts # {}) =>
        unit.ret[1].url \in {SrcFacts[part.url].abs_url : part \in WidestParts}

\* the signals of the candidate: every one that applies to the img element and
\* to the URL of the candidate is added, and 5 is taken off when the declared
\* width and height are both at most 32
SignalSum ==
    LET img == unit.args.doc.imgs[1]
        src == CHOOSE src \in Srcs : SrcFacts[src].abs_url = unit.ret[1].url
        small == /\ IsDigits(img.width) /\ IsDigits(img.height)
                 /\ int(img.width) <= 32 /\ int(img.height) <= 32
    IN  (IF img.in_header THEN 15 ELSE 0)
        + (IF SrcFacts[src].keyword THEN 10 ELSE 0)
        + (IF AltFacts[img.alt].keyword THEN 8 ELSE 0)
        + (IF ClassFacts[img.class].keyword THEN 7 ELSE 0)
        + (IF ClassFacts[img.parent_class].keyword THEN 6 ELSE 0)
        + (IF SrcFacts[src].format = ".svg" THEN 5
           ELSE IF SrcFacts[src].format = ".png" THEN 3 ELSE 0)
        + (IF img.home_link THEN 12 ELSE 0)
        - (IF small THEN 5 ELSE 0)

\* C27: the priority of an image candidate is the sum of all the signals that
\* apply to it: +15 header, +10 URL, +8 alt text, +7 class, +6 class of the
\* parent, +5 .svg or +3 .png, +12 link to the site root, -5 for a declared
\* size of at most 32 by 32.
C27_PriorityIsSumOfSignals ==
    CandidateFound => unit.ret[1].priority = SignalSum

====
